---------------------------- MODULE Spec2Model ----------------------------
(***************************************************************************)
(* A model of the NPS dashboard's data pipeline (src/src/lib/npsUtils.ts): *)
(* the delimited-text tokenizer, the table builder, the score parser, the  *)
(* column identifier and the NPS calculator.                               *)
(*                                                                         *)
(* Text is a TLA+ string; a character is a string of length 1.  A number   *)
(* is a record [kind, m, e]: kind "num" stands for the decimal m * 10^e,   *)
(* and the kinds "NaN", "Infinity", "-Infinity" and "null" stand for the   *)
(* JavaScript values of those names.  A text that is parsed has ten        *)
(* digits of mantissa at most, and m * 10^e stands for the double nearest   *)
(* to it: rounding keeps the order and keeps every integer and every half,  *)
(* so each comparison and each Math.round of the code is that of the        *)
(* decimal, except past the ends of the range, where the double is an       *)
(* infinity or a zero (see Decimal).  The two zeros are one value here: no  *)
(* comparison, rounding or key of the code tells them apart.  The           *)
(* percentages, which come out of divisions, are binary64 values, kept     *)
(* digit by digit (see "Arithmetic of the percentages").                   *)
(***************************************************************************)
EXTENDS Integers, Sequences, FiniteSets, TLC

(***************************************************************************)
(* Strings (String.prototype.trim, includes, toLowerCase)                  *)
(***************************************************************************)

CharAt(s, i) == SubSeq(s, i, i)

\* A string holds the characters U+0001..U+00FF and, above them, the ones
\* whose low byte is 0x80 or more.  The white-space characters among them
\* that have no escape in a string are written raw: the vertical tab
\* (U+000B), the no-break space (U+00A0), the Ogham space mark (U+1680) and
\* the zero width no-break space (U+FEFF).
VerticalTab == ""
NoBreakSpace == " "
OghamSpaceMark == " "
ZeroWidthNoBreakSpace == "﻿"

\* The white space and line terminators String.prototype.trim removes, and
\* parseFloat skips, among the characters a string holds: tab, line feed,
\* vertical tab, form feed, carriage return, space, no-break space, Ogham
\* space mark and zero width no-break space.  The others (U+2000..U+200A,
\* U+2028, U+2029, U+202F, U+205F, U+3000) are characters no string holds.
WhitespaceChars ==
  {" ", "\t", "\n", "\r", "\f", VerticalTab, NoBreakSpace, OghamSpaceMark,
   ZeroWidthNoBreakSpace}

RECURSIVE TrimStart(_)
TrimStart(s) ==
  IF Len(s) > 0 /\ CharAt(s, 1) \in WhitespaceChars
  THEN TrimStart(SubSeq(s, 2, Len(s)))
  ELSE s

RECURSIVE TrimEnd(_)
TrimEnd(s) ==
  IF Len(s) > 0 /\ CharAt(s, Len(s)) \in WhitespaceChars
  THEN TrimEnd(SubSeq(s, 1, Len(s) - 1))
  ELSE s

Trim(s) == TrimEnd(TrimStart(s))

StartsWith(s, p) == Len(p) <= Len(s) /\ SubSeq(s, 1, Len(p)) = p

Includes(s, sub) ==
  \E i \in 1..(Len(s) - Len(sub) + 1) : SubSeq(s, i, i + Len(sub) - 1) = sub

\* The characters of a text, as a set.
Chars(s) == {CharAt(s, i) : i \in 1..Len(s)}

\* The letters String.prototype.toLowerCase changes whose lower-case form a
\* string holds (569 of them) and, place by place, that form.
UpperChars ==
  "ABCDEFGHIJKLMNOPQRSTUVWXYZÀÁÂÃÄÅÆÇÈÉÊËÌÍÎÏÐÑÒÓÔÕ" \o
  "ÖØÙÚÛÜÝÞƂƄƇƋƎƑƘƠƢƤƦƧƩƬƮƯƱƲƳƵƷƸƼǄǅǇǈǊǋǍǏǑǓǕǗǙǛǞǠǢ" \o
  "ǤǦǨǪǬǮǱǲǴǶǷǸǺǼǾΆΈΉΊΌΎΏΑΒΓΔΕΖΗΘΙΚΛΜΝΞΟΠΡΣΤΥΦΧΨΩΪΫ" \o
  "ϏϘϚϜϞϠϢϤϦϨϪϬϮϴϷϹϺҀҊҌҎҐҒҔҖҘҚҜҞҠҢҤҦҨҪҬҮҰҲҴҶҸҺҼҾӀӁӃ" \o
  "ӅӇӉӋӍӐӒӔӖӘӚӜӞӠӢӤӦӨӪӬӮӰӲӴӶӸӺӼӾᎰᎱᎲᎳᎴᎵᎶᎷᎸᎹᎺᎻᎼᎽᎾᎿᏀᏁᏂ" \o
  "ᏃᏄᏅᏆᏇᏈᏉᏊᏋᏌᏍᏎᏏᏐᏑᏒᏓᏔᏕᏖᏗᏘᏙᏚᏛᏜᏝᏞᏟᏠᏡᏢᏣᏤᏥᏦᏧᏨᏩᏪᏫᏬᏭᏮᏯᏰᏱᏲ" \o
  "ᏳᏴᏵᲉᲐᲑᲒᲓᲔᲕᲖᲗᲘᲙᲚᲛᲜᲝᲞᲟᲠᲡᲢᲣᲤᲥᲦᲧᲨᲩᲪᲫᲬᲭᲮᲯᲰᲱᲲᲳᲴᲵᲶᲷᲸᲹᲺᲽ" \o
  "ᲾᲿẀẂẄẆẈẊẌẎẐẒẔẞẠẢẤẦẨẪẬẮẰẲẴẶẸẺẼẾỀỂỄỆỈỊỌỎỐỒỔỖỘỚỜỞỠỢ" \o
  "ỤỦỨỪỬỮỰỲỴỶỸỺỼỾᾈᾉᾊᾋᾌᾍᾎᾏᾘᾙᾚᾛᾜᾝᾞᾟᾨᾩᾪᾫᾬᾭᾮᾯᾸᾹᾼῌῘῙῨῩῬῼ" \o
  "ↃⒶⒷⒸⒹⒺⒻⒼⒽⒾⒿⓀⓁⓂⓃⓄⓅⓆⓇⓈⓉⓊⓋⓌⓍⓎⓏⲀⲂⲄⲆⲈⲊⲌⲎⲐⲒⲔⲖⲘⲚⲜⲞⲠⲢⲤⲦⲨ" \o
  "ⲪⲬⲮⲰⲲⲴⲶⲸⲺⲼⲾⳀⳂⳄⳆⳈⳊⳌⳎⳐⳒⳔⳖⳘⳚⳜⳞⳠⳢⳫⳭⳲꚀꚂꚄꚆꚈꚊꚌꚎꚐꚒꚔꚖꚘꚚꞀꞂ" \o
  "ꞄꞆꞋꞐꞒꞖꞘꞚꞜꞞꞠꞢꞤꞦꞨꞰꞱꞲꞴꞶꞸꞺꞼꞾꟀꟂꟄꟅꟆꟇꟉꟌ꟎Ꟑ꟒꟔ꟖꟘꟚꟜꟵ"

LowerChars ==
  "abcdefghijklmnopqrstuvwxyzàáâãäåæçèéêëìíîïðñòóôõ" \o
  "öøùúûüýþƃƅƈƌǝƒƙơƣƥʀƨʃƭʈưʊʋƴƶʒƹƽǆǆǉǉǌǌǎǐǒǔǖǘǚǜǟǡǣ" \o
  "ǥǧǩǫǭǯǳǳǵƕƿǹǻǽǿάέήίόύώαβγδεζηθικλμνξοπρστυφχψωϊϋ" \o
  "ϗϙϛϝϟϡϣϥϧϩϫϭϯθϸϲϻҁҋҍҏґғҕҗҙқҝҟҡңҥҧҩҫҭүұҳҵҷҹһҽҿӏӂӄ" \o
  "ӆӈӊӌӎӑӓӕӗәӛӝӟӡӣӥӧөӫӭӯӱӳӵӷӹӻӽӿꮀꮁꮂꮃꮄꮅꮆꮇꮈꮉꮊꮋꮌꮍꮎꮏꮐꮑꮒ" \o
  "ꮓꮔꮕꮖꮗꮘꮙꮚꮛꮜꮝꮞꮟꮠꮡꮢꮣꮤꮥꮦꮧꮨꮩꮪꮫꮬꮭꮮꮯꮰꮱꮲꮳꮴꮵꮶꮷꮸꮹꮺꮻꮼꮽꮾꮿᏸᏹᏺ" \o
  "ᏻᏼᏽᲊაბგდევზთიკლმნოპჟრსტუფქღყშჩცძწჭხჯჰჱჲჳჴჵჶჷჸჹჺჽ" \o
  "ჾჿẁẃẅẇẉẋẍẏẑẓẕßạảấầẩẫậắằẳẵặẹẻẽếềểễệỉịọỏốồổỗộớờởỡợ" \o
  "ụủứừửữựỳỵỷỹỻỽỿᾀᾁᾂᾃᾄᾅᾆᾇᾐᾑᾒᾓᾔᾕᾖᾗᾠᾡᾢᾣᾤᾥᾦᾧᾰᾱᾳῃῐῑῠῡῥῳ" \o
  "ↄⓐⓑⓒⓓⓔⓕⓖⓗⓘⓙⓚⓛⓜⓝⓞⓟⓠⓡⓢⓣⓤⓥⓦⓧⓨⓩⲁⲃⲅⲇⲉⲋⲍⲏⲑⲓⲕⲗⲙⲛⲝⲟⲡⲣⲥⲧⲩ" \o
  "ⲫⲭⲯⲱⲳⲵⲷⲹⲻⲽⲿⳁⳃⳅⳇⳉⳋⳍⳏⳑⳓⳕⳗⳙⳛⳝⳟⳡⳣⳬⳮⳳꚁꚃꚅꚇꚉꚋꚍꚏꚑꚓꚕꚗꚙꚛꞁꞃ" \o
  "ꞅꞇꞌꞑꞓꞗꞙꞛꞝꞟꞡꞣꞥꞧꞩʞʇʝꞵꞷꞹꞻꞽꞿꟁꟃꞔʂᶎꟈꟊꟍ꟏ꟑꟓꟕꟗꟙꟛƛꟶ"

\* The letters toLowerCase changes into a character no string holds
\* (94 of them, U+0181 which becomes U+0253 the first): the lower-case
\* form of a text with one of them is not a text of the model.
UpperCharsBeyond ==
  Chars("ƁƆƉƊƏƐƓƔƖƗƜƝƟϽϾϿႠႡႢႣႤႥႦႧႨႩႪႫႬႭႮႯႰႱႲႳႴႵႶႷႸႹႺႻႼႽႾႿ" \o
  "ჀჁჂჃჄჅჇჍᎠᎡᎢᎣᎤᎥᎦᎧᎨᎩᎪᎫᎬᎭᎮᎯᾺΆῈΈῊΉῚΊῪΎῸΌῺΏꞍꞪꞫꞬꞭꞮꞳꟋ")

\* The characters with the property Case_Ignorable, and the ones with the
\* property Cased that are not Case_Ignorable.
CaseIgnorableChars ==
  Chars(".:^`'¨­¯´·¸ʰʱʲʳʴʵʶʷʸʹʺʻʼʽʾʿˀˁ˂˃˄˅ˆˇˈˉˊˋˌˍˎˏːˑ˒˓˔" \o
  "˕˖˗˘˙˚˛˜˝˞˟ˠˡˢˣˤ˥˦˧˨˩˪˫ˬ˭ˮ˯˰˱˲˳˴˵˶˷˸˹˺˻˼˽˾˿΄΅·҃҄" \o
  "҅҆҇҈҉ְֱֲֳִֵֶַָֹֺֻ֑֖֛֢֣֤֥֦֧֪֚֭֮֒֓֔֕֗֘֙֜֝֞֟֠֡֨֩֫֬֯" \o
  "ׇּֽֿׁׂׅׄ״ۖۗۘۙۚۛۜ۝ۣ۟۠ۡۢۤۥۦ۪ۭۧۨ۫۬ަާިީުޫެޭޮޯް߫߬߭߮߯߰" \o
  "߲߱߳ߴߵߺ߽࢈࢐࢑࢙࢚࢛ࢗ࢘࢜࢝࢞࢟ࣉ࣏࣐࣑࣒࣓࣊࣋࣌࣍࣎ࣔࣕࣖࣗࣘࣙࣚࣛࣜࣝࣞࣟ࣠࣡࣢ࣣࣤࣥ" \o
  "ࣰࣱࣲࣦࣩ࣭࣮࣯ࣶࣹࣺࣧࣨ࣪࣫࣬ࣳࣴࣵࣷࣸࣻࣼࣽࣾࣿঁ়ুূৃৄ্ৢৣ৾ઁં઼ુૂૃૄૅેૈ્ૢ" \o
  "ૣૺૻૼ૽૾૿ஂீ்ಁ಼ಿೆೌ್ೢೣඁ්ිීුූັິີຶື຺ຸູົຼໆ່້໊໋໌ໍ໎྄ཱྀྀྂྃ྆" \o
  "྇ྍྎྏྐྑྒྒྷྔྕྖྗྙྚྛྜྜྷྞྟྠྡྡྷྣྤྥྦྦྷྨྩྪྫྫྷྭྮྯྰྱྲླྴྵྶྷྸྐྵྺྻྼ" \o
  "࿆ႂႅႆႍႝჼ឴឵ិីឹឺុូួំ៉៊់៌៍៎៏័៑្៓ៗ៝ᢅᢆᢩᪧ᪵᪶᪷᪸᪹᪺᪽᪰᪱᪲᪳᪴᪻᪼" \o
  "᪾ᪿᫀ᫃᫄᫊᫁᫂᫅᫆᫇᫈᫉᫋ᫌᫍᫎ᫏᫐᫑᫒᫓᫔᫕᫖᫗᫘᫙᫚᫛᫜᫝᫠᫡᫢᫣᫤᫥᫦᫧᫨᫩᫪᫫ᮀᮁᮢᮣ" \o
  "ᮤᮥᮨᮩ᮫ᮬᮭ᯦ᯨᯩᯭᯯᯰᯱ᳔᳢᳣᳤᳥᳦᳧᳨᳕᳖᳗᳘᳙᳜᳝᳞᳟᳭᳐᳑᳒᳚᳛᳠᳴᳸᳹ᶛᶜᶝᶞᶟᶠᶡ" \o
  "ᶢᶣᶤᶥᶦᶧᶨᶩᶪᶫᶬᶭᶮᶯᶰᶱᶲᶳᶴᶵᶶᶷᶸᶹᶺᶻᶼᶽᶾᶿ᷐᷎᷂᷊᷏᷀᷁᷃᷄᷅᷆᷇᷈᷉᷋᷌᷑᷍" \o
  "᷺᷹᷽᷿᷷᷸᷒ᷓᷔᷕᷖᷗᷘᷙᷚᷛᷜᷝᷞᷟᷠᷡᷢᷣᷤᷥᷦᷧᷨᷩᷪᷫᷬᷭᷮᷯᷰᷱᷲᷳᷴ᷵᷻᷾᷶᷼᾽᾿" \o
  "῀῁῍῎῏῝῞῟῭΅`´῾ₐₑₒₓₔₕₖₗₘₙₚₛₜ⃒⃓⃘⃙⃚⃐⃑⃔⃕⃖⃗⃛⃜⃝⃞⃟⃠⃡⃢⃣⃤⃥" \o
  "⃦⃪⃫゙゚⃨⃬⃭⃮⃯⃧⃩⃰⳯⳰⳱ⷠⷡⷢⷣⷤⷥⷦⷧⷨⷩⷪⷫⷬⷭⷮⷯⷰⷱⷲⷳⷴⷵⷶⷷⷸⷹⷺⷻⷼⷽⷾⷿ" \o
  "゛゜ゝゞーヽヾꓸꓹꓺꓻꓼꓽꚜꚝꚞꚟ꛰꛱ꞈ꞉꞊꟱ꟲꟳꟴꟸꟹ꣄ꣅ꣠꣡꣢꣣꣤꣥꣦꣧꣨꣩꣪꣫꣬꣭꣮꣯꣰꣱" \o
  "ꣿꦀꦁꦂ꦳ꦶꦷꦸꦹꦼꦽꧏꧥꧦꪴꪰꪲꪳꪷꪸꪾ꪿꫁ꫝꫬꫭꫳꫴ꫶ꯥꯨ꯭﮲﮳﮴﮵﮶﮷﮸﮹﮺﮻﮼﮽﮾﮿﯀﯁" \o
  "﯂﻿ﾞﾟ￣￹￺￻")

CasedChars ==
  Chars("ABCDEFGHIJKLMNOPQRSTUVWXYZabcdefghijklmnopqrstuv" \o
  "wxyzªµºÀÁÂÃÄÅÆÇÈÉÊËÌÍÎÏÐÑÒÓÔÕÖØÙÚÛÜÝÞßàáâãäåæçèé" \o
  "êëìíîïðñòóôõöøùúûüýþÿƀƁƂƃƄƅƆƇƈƉƊƋƌƍƎƏƐƑƒƓƔƕƖƗƘƙƚ" \o
  "ƛƜƝƞƟƠơƢƣƤƥƦƧƨƩƪƫƬƭƮƯưƱƲƳƴƵƶƷƸƹƺƼƽƾƿǄǅǆǇǈǉǊǋǌǍǎǏ" \o
  "ǐǑǒǓǔǕǖǗǘǙǚǛǜǝǞǟǠǡǢǣǤǥǦǧǨǩǪǫǬǭǮǯǰǱǲǳǴǵǶǷǸǹǺǻǼǽǾǿ" \o
  "ʀʁʂʃʄʅʆʇʈʉʊʋʌʍʎʏʐʑʒʓʖʗʘʙʚʛʜʝʞʟʠʡʢʣʤʥʦʧʨʩʪʫʬʭʮʯΆ" \o
  "ΈΉΊΌΎΏΐΑΒΓΔΕΖΗΘΙΚΛΜΝΞΟΠΡΣΤΥΦΧΨΩΪΫάέήίΰαβγδεζηθικ" \o
  "λμνξοπρςστυφχψωϊϋόύώϏϐϑϒϓϔϕϖϗϘϙϚϛϜϝϞϟϠϡϢϣϤϥϦϧϨϩϪ" \o
  "ϫϬϭϮϯϰϱϲϳϴϵϷϸϹϺϻϼϽϾϿҀҁҊҋҌҍҎҏҐґҒғҔҕҖҗҘҙҚқҜҝҞҟҠҡҢң" \o
  "ҤҥҦҧҨҩҪҫҬҭҮүҰұҲҳҴҵҶҷҸҹҺһҼҽҾҿӀӁӂӃӄӅӆӇӈӉӊӋӌӍӎӏӐӑӒӓ" \o
  "ӔӕӖӗӘәӚӛӜӝӞӟӠӡӢӣӤӥӦӧӨөӪӫӬӭӮӯӰӱӲӳӴӵӶӷӸӹӺӻӼӽӾӿրցւփ" \o
  "քօֆևֈႠႡႢႣႤႥႦႧႨႩႪႫႬႭႮႯႰႱႲႳႴႵႶႷႸႹႺႻႼႽႾႿჀჁჂჃჄჅჇჍაბგ" \o
  "დევზთიკლმნოპჟრსტუფქღყშჩცძწჭხჯჰჱჲჳჴჵჶჷჸჹჺჽჾჿᎠᎡᎢᎣᎤ" \o
  "ᎥᎦᎧᎨᎩᎪᎫᎬᎭᎮᎯᎰᎱᎲᎳᎴᎵᎶᎷᎸᎹᎺᎻᎼᎽᎾᎿᏀᏁᏂᏃᏄᏅᏆᏇᏈᏉᏊᏋᏌᏍᏎᏏᏐᏑᏒᏓᏔ" \o
  "ᏕᏖᏗᏘᏙᏚᏛᏜᏝᏞᏟᏠᏡᏢᏣᏤᏥᏦᏧᏨᏩᏪᏫᏬᏭᏮᏯᏰᏱᏲᏳᏴᏵᏸᏹᏺᏻᏼᏽᲀᲁᲂᲃᲄᲅᲆᲇᲈ" \o
  "ᲉᲊᲐᲑᲒᲓᲔᲕᲖᲗᲘᲙᲚᲛᲜᲝᲞᲟᲠᲡᲢᲣᲤᲥᲦᲧᲨᲩᲪᲫᲬᲭᲮᲯᲰᲱᲲᲳᲴᲵᲶᲷᲸᲹᲺᲽᲾᲿ" \o
  "ᶀᶁᶂᶃᶄᶅᶆᶇᶈᶉᶊᶋᶌᶍᶎᶏᶐᶑᶒᶓᶔᶕᶖᶗᶘᶙᶚẀẁẂẃẄẅẆẇẈẉẊẋẌẍẎẏẐẑẒẓẔ" \o
  "ẕẖẗẘẙẚẛẜẝẞẟẠạẢảẤấẦầẨẩẪẫẬậẮắẰằẲẳẴẵẶặẸẹẺẻẼẽẾếỀềỂểỄ" \o
  "ễỆệỈỉỊịỌọỎỏỐốỒồỔổỖỗỘộỚớỜờỞởỠỡỢợỤụỦủỨứỪừỬửỮữỰựỲỳỴ" \o
  "ỵỶỷỸỹỺỻỼỽỾỿᾀᾁᾂᾃᾄᾅᾆᾇᾈᾉᾊᾋᾌᾍᾎᾏᾐᾑᾒᾓᾔᾕᾖᾗᾘᾙᾚᾛᾜᾝᾞᾟᾠᾡᾢᾣᾤ" \o
  "ᾥᾦᾧᾨᾩᾪᾫᾬᾭᾮᾯᾰᾱᾲᾳᾴᾶᾷᾸᾹᾺΆᾼιῂῃῄῆῇῈΈῊΉῌῐῑῒΐῖῗῘῙῚΊῠῡῢΰ" \o
  "ῤῥῦῧῨῩῪΎῬῲῳῴῶῷῸΌῺΏῼↃↄⒶⒷⒸⒹⒺⒻⒼⒽⒾⒿⓀⓁⓂⓃⓄⓅⓆⓇⓈⓉⓊⓋⓌⓍⓎⓏⓐ" \o
  "ⓑⓒⓓⓔⓕⓖⓗⓘⓙⓚⓛⓜⓝⓞⓟⓠⓡⓢⓣⓤⓥⓦⓧⓨⓩⲀⲁⲂⲃⲄⲅⲆⲇⲈⲉⲊⲋⲌⲍⲎⲏⲐⲑⲒⲓⲔⲕⲖ" \o
  "ⲗⲘⲙⲚⲛⲜⲝⲞⲟⲠⲡⲢⲣⲤⲥⲦⲧⲨⲩⲪⲫⲬⲭⲮⲯⲰⲱⲲⲳⲴⲵⲶⲷⲸⲹⲺⲻⲼⲽⲾⲿⳀⳁⳂⳃⳄⳅⳆ" \o
  "ⳇⳈⳉⳊⳋⳌⳍⳎⳏⳐⳑⳒⳓⳔⳕⳖⳗⳘⳙⳚⳛⳜⳝⳞⳟⳠⳡⳢⳣⳤⳫⳬⳭⳮⳲⳳꚀꚁꚂꚃꚄꚅꚆꚇꚈꚉꚊꚋ" \o
  "ꚌꚍꚎꚏꚐꚑꚒꚓꚔꚕꚖꚗꚘꚙꚚꚛꞀꞁꞂꞃꞄꞅꞆꞇꞋꞌꞍꞎꞐꞑꞒꞓꞔꞕꞖꞗꞘꞙꞚꞛꞜꞝꞞꞟꞠꞡꞢꞣ" \o
  "ꞤꞥꞦꞧꞨꞩꞪꞫꞬꞭꞮꞯꞰꞱꞲꞳꞴꞵꞶꞷꞸꞹꞺꞻꞼꞽꞾꞿꟀꟁꟂꟃꟄꟅꟆꟇꟈꟉꟊꟋꟌꟍ꟎꟏Ꟑꟑ꟒ꟓ" \o
  "꟔ꟕꟖꟗꟘꟙꟚꟛꟜꟵꟶꟺꮀꮁꮂꮃꮄꮅꮆꮇꮈꮉꮊꮋꮌꮍꮎꮏꮐꮑꮒꮓꮔꮕꮖꮗꮘꮙꮚꮛꮜꮝꮞꮟꮠꮡꮢꮣ" \o
  "ꮤꮥꮦꮧꮨꮩꮪꮫꮬꮭꮮꮯꮰꮱꮲꮳꮴꮵꮶꮷꮸꮹꮺꮻꮼꮽꮾꮿ")

LowerCaseOf ==
  [c \in Chars(UpperChars) |->
     CharAt(LowerChars, CHOOSE i \in 1..Len(UpperChars) : CharAt(UpperChars, i) = c)]

\* The lower-case form of a character taken alone.
LowerChar(c) ==
  IF c \in DOMAIN LowerCaseOf THEN LowerCaseOf[c]
  ELSE IF c \in UpperCharsBeyond THEN CHOOSE held \in {} : TRUE
  ELSE c

\* The condition Final_Sigma of the i-th character of s: the nearest
\* character before it that is not case-ignorable is cased, and the nearest
\* one after it that is not case-ignorable, if there is one, is not.
IsFinalSigma(s, i) ==
  LET before == {j \in 1..(i - 1) : CharAt(s, j) \notin CaseIgnorableChars}
      after == {j \in (i + 1)..Len(s) : CharAt(s, j) \notin CaseIgnorableChars}
  IN  /\ before # {}
      /\ CharAt(s, CHOOSE j \in before : \A k \in before : k <= j) \in CasedChars
      /\ \/ after = {}
         \/ CharAt(s, CHOOSE j \in after : \A k \in after : j <= k) \notin CasedChars

\* String.prototype.toLowerCase: each character's lower-case form, the
\* capital sigma becoming the final sigma where Final_Sigma holds.
ToLowerCase(s) ==
  LET LowerAt(i) ==
        IF CharAt(s, i) = "Σ" /\ IsFinalSigma(s, i) THEN "ς"
        ELSE LowerChar(CharAt(s, i))
      RECURSIVE From(_)
      From(i) == IF i > Len(s) THEN "" ELSE LowerAt(i) \o From(i + 1)
  IN  From(1)

(***************************************************************************)
(* Numbers (parseFloat, parseInt, Math.round, comparisons)                 *)
(***************************************************************************)

Digits == "0123456789"

IsDigit(c) == \E i \in 1..10 : CharAt(Digits, i) = c

DigitValue(c) == (CHOOSE i \in 1..10 : CharAt(Digits, i) = c) - 1

\* The longest prefix of s made of decimal digits: the group of /^(\d+)/.
RECURSIVE DigitRun(_)
DigitRun(s) ==
  IF Len(s) > 0 /\ IsDigit(CharAt(s, 1))
  THEN CharAt(s, 1) \o DigitRun(SubSeq(s, 2, Len(s)))
  ELSE ""

RECURSIVE StrToNat(_)
StrToNat(ds) ==
  IF Len(ds) = 0 THEN 0
  ELSE 10 * StrToNat(SubSeq(ds, 1, Len(ds) - 1)) + DigitValue(CharAt(ds, Len(ds)))

RECURSIVE Pow10(_)
Pow10(k) == IF k <= 0 THEN 1 ELSE 10 * Pow10(k - 1)

RECURSIVE NumDigits(_)
NumDigits(n) == IF n < 10 THEN 1 ELSE 1 + NumDigits(n \div 10)

Abs(n) == IF n < 0 THEN -n ELSE n

Num(m, e) == [kind |-> "num", m |-> m, e |-> e]
NaN == [kind |-> "NaN", m |-> 0, e |-> 0]
Infinity == [kind |-> "Infinity", m |-> 0, e |-> 0]
NegInfinity == [kind |-> "-Infinity", m |-> 0, e |-> 0]
Null == [kind |-> "null", m |-> 0, e |-> 0]

isNaN(x) == x.kind = "NaN"

\* x >= 0
GeqZero(x) ==
  CASE x.kind = "num" -> x.m >= 0
    [] x.kind = "Infinity" -> TRUE
    [] OTHER -> FALSE

\* x <= n, for a small natural number n
LeqNat(x, n) ==
  CASE x.kind = "-Infinity" -> TRUE
    [] x.kind = "num" ->
         IF x.m <= 0 THEN TRUE
         ELSE IF x.e >= 0
              THEN x.e < 9 /\ NumDigits(x.m) + x.e <= 9 /\ x.m * Pow10(x.e) <= n
              ELSE IF -x.e >= NumDigits(x.m) THEN TRUE
                   ELSE x.m <= n * Pow10(-x.e)
    [] OTHER -> FALSE

\* x >= n, for a small natural number n >= 1
GeqNat(x, n) ==
  CASE x.kind = "Infinity" -> TRUE
    [] x.kind = "num" ->
         IF x.m <= 0 THEN FALSE
         ELSE IF x.e >= 0
              THEN x.e >= 9 \/ NumDigits(x.m) + x.e > 9 \/ x.m * Pow10(x.e) >= n
              ELSE IF -x.e >= NumDigits(x.m) THEN FALSE
                   ELSE x.m >= n * Pow10(-x.e)
    [] OTHER -> FALSE

\* Math.round of a decimal in [-10^8, 10^8]: the integer floor(x + 1/2).
MathRound(x) ==
  IF x.e >= 0 THEN x.m * Pow10(x.e)
  ELSE IF -x.e > NumDigits(Abs(x.m)) THEN 0
       ELSE (2 * x.m + Pow10(-x.e)) \div (2 * Pow10(-x.e))

\* parseFloat: the longest prefix of the text, after leading white space,
\* that is a decimal literal (sign, digits, fraction, exponent) or a signed
\* "Infinity"; NaN when there is none.  The operators below are its stages.
SignLen(t) == IF Len(t) > 0 /\ CharAt(t, 1) \in {"+", "-"} THEN 1 ELSE 0

SignOf(t) == IF Len(t) > 0 /\ CharAt(t, 1) = "-" THEN -1 ELSE 1

\* The value of an optional sign and a run of digits; 0 when no digit follows.
SignedDigits(s) == SignOf(s) * StrToNat(DigitRun(SubSeq(s, SignLen(s) + 1, Len(s))))

\* The exponent the text after the mantissa states, 0 when it states none.
Exponent(rest) ==
  IF Len(rest) > 0 /\ CharAt(rest, 1) \in {"e", "E"}
  THEN SignedDigits(SubSeq(rest, 2, Len(rest)))
  ELSE 0

\* The digits after a decimal point that starts the text, "" when none.
Fraction(afterInt) ==
  IF StartsWith(afterInt, ".") THEN DigitRun(SubSeq(afterInt, 2, Len(afterInt))) ELSE ""

DotLen(afterInt) == IF StartsWith(afterInt, ".") THEN 1 ELSE 0

\* The binary64 value of the decimal literal.  Past the largest double by
\* half a unit in the last place or more (2^1024 - 2^970, which is
\* 1.797693134862315807...e308) it is an infinity; at half the smallest
\* double or less (2^-1075, which is 2.470328229206232720...e-324) it is a
\* zero.  A mantissa has ten digits at most, so its first nine digits, and
\* the tenth at the upper end, decide on which side of each it lies.
Decimal(sign, int, frac, rest) ==
  IF Len(int) = 0 /\ Len(frac) = 0 THEN NaN
  ELSE LET m == StrToNat(int \o frac)
           e == Exponent(rest) - Len(frac)
           digits == NumDigits(m)
           top == e + digits - 1
           lead == IF digits <= 9 THEN m * Pow10(9 - digits) ELSE m \div 10
           overflows ==
             \/ top > 308
             \/ /\ top = 308
                /\ \/ lead > 179769313
                   \/ lead = 179769313 /\ digits = 10 /\ m % 10 >= 5
           underflows == top < -324 \/ (top = -324 /\ lead <= 247032822)
       IN  IF m = 0 THEN Num(0, 0)
           ELSE IF overflows THEN (IF sign = 1 THEN Infinity ELSE NegInfinity)
           ELSE IF underflows THEN Num(0, 0)
           ELSE Num(sign * m, e)

ParseAfterInt(sign, int, afterInt) ==
  Decimal(sign, int, Fraction(afterInt),
          SubSeq(afterInt, DotLen(afterInt) + Len(Fraction(afterInt)) + 1, Len(afterInt)))

ParseBody(sign, body) ==
  IF StartsWith(body, "Infinity")
  THEN (IF sign = 1 THEN Infinity ELSE NegInfinity)
  ELSE ParseAfterInt(sign, DigitRun(body), SubSeq(body, Len(DigitRun(body)) + 1, Len(body)))

ParseSigned(t) == ParseBody(SignOf(t), SubSeq(t, SignLen(t) + 1, Len(t)))

parseFloat(str) == ParseSigned(TrimStart(str))

\* parseInt(digits, 10), of a run of decimal digits
parseInt(ds) == Num(StrToNat(ds), 0)

(***************************************************************************)
(* Objects: a Record<string, string> is the sequence of its <<key, value>>  *)
(* entries in the order Object.keys / Object.entries list them: the keys   *)
(* that are array indices first, in ascending numeric order, then the      *)
(* other keys in insertion order.                                          *)
(***************************************************************************)

RECURSIVE AllDigits(_)
AllDigits(s) ==
  Len(s) = 0 \/ (IsDigit(CharAt(s, 1)) /\ AllDigits(SubSeq(s, 2, Len(s))))

\* a < b, for two runs of digits of the same length
RECURSIVE DigitsLess(_, _)
DigitsLess(a, b) ==
  IF Len(a) = 0 THEN FALSE
  ELSE IF CharAt(a, 1) = CharAt(b, 1)
       THEN DigitsLess(SubSeq(a, 2, Len(a)), SubSeq(b, 2, Len(b)))
       ELSE DigitValue(CharAt(a, 1)) < DigitValue(CharAt(b, 1))

\* a < b, for two canonical numerals
NumeralLess(a, b) == Len(a) < Len(b) \/ (Len(a) = Len(b) /\ DigitsLess(a, b))

\* A canonical numeral below 2^32 - 1: the keys an object lists first.
IsIndexKey(k) ==
  /\ Len(k) > 0
  /\ AllDigits(k)
  /\ (k = "0" \/ CharAt(k, 1) # "0")
  /\ NumeralLess(k, "4294967295")

Keys(obj) == [i \in 1..Len(obj) |-> obj[i][1]]

Values(obj) == [i \in 1..Len(obj) |-> obj[i][2]]

hasOwnProperty(obj, k) == \E i \in 1..Len(obj) : obj[i][1] = k

Get(obj, k) == obj[CHOOSE i \in 1..Len(obj) : obj[i][1] = k][2]

\* obj[k] = v, for a string v and an object that inherits from
\* Object.prototype: the inherited setter of "__proto__" takes the assignment
\* and, v being no object, does nothing.
ObjSet(obj, k, v) ==
  IF k = "__proto__" THEN obj
  ELSE IF hasOwnProperty(obj, k)
  THEN [i \in 1..Len(obj) |-> IF obj[i][1] = k THEN <<k, v>> ELSE obj[i]]
  ELSE IF IsIndexKey(k)
       THEN LET before == Cardinality({i \in 1..Len(obj) :
                              IsIndexKey(obj[i][1]) /\ NumeralLess(obj[i][1], k)})
            IN  SubSeq(obj, 1, before) \o <<(<<k, v>>)>> \o SubSeq(obj, before + 1, Len(obj))
       ELSE Append(obj, <<k, v>>)

\* Array.prototype.includes
SeqIncludes(seq, x) == \E i \in 1..Len(seq) : seq[i] = x

\* Set.prototype.add, on the sequence of a set's elements in insertion order
SetAdd(seq, x) == IF SeqIncludes(seq, x) THEN seq ELSE Append(seq, x)

\* Array.from(new Set(seq)): the first occurrence of each element, in order
RECURSIVE Unique(_)
Unique(seq) ==
  IF Len(seq) = 0 THEN <<>>
  ELSE SetAdd(Unique(SubSeq(seq, 1, Len(seq) - 1)), seq[Len(seq)])

(***************************************************************************)
(* Score parser and categories                                             *)
(***************************************************************************)

DETRATOR == "detrator"
NEUTRO == "neutro"
PROMOTOR == "promotor"

InRange(x, lo, hi) == (IF lo = 0 THEN GeqZero(x) ELSE GeqNat(x, lo)) /\ LeqNat(x, hi)

\* A variant of getNPSCategory whose detractor band stops below 6.
getNPSCategoryLowSix(score) ==
  IF score.kind # "num" THEN NEUTRO
  ELSE LET roundedScore == MathRound(score)
       IN  IF roundedScore >= 0 /\ roundedScore < 6 THEN DETRATOR
           ELSE IF roundedScore >= 7 /\ roundedScore <= 8 THEN NEUTRO
           ELSE IF roundedScore >= 9 /\ roundedScore <= 10 THEN PROMOTOR
           ELSE NEUTRO

\* NaN, null and undefined give the default; so do the infinities, which
\* Math.round leaves outside 0..10.
getNPSCategory(score) ==
  IF score.kind # "num" THEN NEUTRO
  ELSE LET roundedScore == MathRound(score)
       IN  IF roundedScore >= 0 /\ roundedScore <= 6 THEN DETRATOR
           ELSE IF roundedScore >= 7 /\ roundedScore <= 8 THEN NEUTRO
           ELSE IF roundedScore >= 9 /\ roundedScore <= 10 THEN PROMOTOR
           ELSE NEUTRO

\* Object.entries(wordToValue)
wordToValue ==
  << <<"péssimo", 0>>, <<"pessimo", 0>>, <<"ruim", 2>>, <<"insatisfeito", 3>>,
     <<"regular", 5>>, <<"médio", 5>>, <<"medio", 5>>, <<"neutro", 7>>,
     <<"bom", 8>>, <<"satisfeito", 8>>, <<"ótimo", 9>>, <<"otimo", 9>>,
     <<"excelente", 10>>, <<"muito bom", 9>>, <<"perfeito", 10>> >>

\* A variant of the search of the table that takes the last keyword included.
KeywordValueLast(lowerValue) ==
  LET hits == {i \in 1..Len(wordToValue) : Includes(lowerValue, wordToValue[i][1])}
  IN  IF hits = {} THEN NaN
      ELSE Num(wordToValue[CHOOSE i \in hits : \A j \in hits : i >= j][2], 0)

\* The value of the first keyword of the table the text includes, else NaN.
KeywordValue(lowerValue) ==
  LET hits == {i \in 1..Len(wordToValue) : Includes(lowerValue, wordToValue[i][1])}
  IN  IF hits = {} THEN NaN
      ELSE Num(wordToValue[CHOOSE i \in hits : \A j \in hits : i <= j][2], 0)

\* A variant of the range check that accepts what is above 10 as well.
ValidatedFromZero(numValue) ==
  IF ~isNaN(numValue) /\ GeqZero(numValue)
  THEN [valid |-> TRUE, value |-> numValue]
  ELSE [valid |-> FALSE, value |-> Null]

\* The range check that ends parseNPSValue (lines 149-151).
Validated(numValue) ==
  IF ~isNaN(numValue) /\ GeqZero(numValue) /\ LeqNat(numValue, 10)
  THEN [valid |-> TRUE, value |-> numValue]
  ELSE [valid |-> FALSE, value |-> Null]

\* What follows a direct parse (lines 122-146): the leading digits, then the keywords.
Fallback(strValue, direct) ==
  IF ~isNaN(direct) THEN direct
  ELSE IF Len(DigitRun(strValue)) > 0 THEN parseInt(DigitRun(strValue))
  ELSE KeywordValue(ToLowerCase(strValue))

ParseText(strValue) == Validated(Fallback(strValue, parseFloat(strValue)))

\* parseNPSValue of a cell, which is a string in every record of the model.
parseNPSValue(value) ==
  IF value = "" THEN [valid |-> FALSE, value |-> Null]
  ELSE ParseText(Trim(value))

\* The range check of a value that is a number already (lines 109-112).
ValidatedNumber(value) ==
  IF ~isNaN(value) /\ GeqZero(value) /\ LeqNat(value, 10)
  THEN [valid |-> TRUE, value |-> value]
  ELSE [valid |-> FALSE, value |-> Null]

\* parseNPSValue of any input: null, undefined, a number or a string.
parseNPSInput(input) ==
  IF input.type \in {"null", "undefined"} THEN [valid |-> FALSE, value |-> Null]
  ELSE IF input.type = "number" THEN ValidatedNumber(input.num)
  ELSE parseNPSValue(input.text)

(***************************************************************************)
(* Arithmetic of the percentages                                           *)
(*                                                                         *)
(* A JavaScript number that comes out of a division is an IEEE 754         *)
(* binary64 value.  Such a value is kept as [neg, bits, exp], standing for *)
(* (-1)^neg * N * 2^exp, where bits holds the binary digits of the odd     *)
(* natural N, the most significant first; zero has no digit.  The values   *)
(* of the model stay far from the ends of the exponent range.              *)
(***************************************************************************)

Zeros(n) == [i \in 1..n |-> 0]

RECURSIVE NatToBits(_)
NatToBits(n) == IF n = 0 THEN <<>> ELSE Append(NatToBits(n \div 2), n % 2)

RECURSIVE BitsToNat(_)
BitsToNat(bits) ==
  IF Len(bits) = 0 THEN 0
  ELSE 2 * BitsToNat(SubSeq(bits, 1, Len(bits) - 1)) + bits[Len(bits)]

RECURSIVE Pow2(_)
Pow2(n) == IF n = 0 THEN 1 ELSE 2 * Pow2(n - 1)

FirstOne(bits) == CHOOSE i \in 1..Len(bits) : bits[i] = 1 /\ \A j \in 1..(i - 1) : bits[j] = 0
LastOne(bits) == CHOOSE i \in 1..Len(bits) : bits[i] = 1 /\ \A j \in (i + 1)..Len(bits) : bits[j] = 0
LastZero(bits) == CHOOSE i \in 1..Len(bits) : bits[i] = 0 /\ \A j \in (i + 1)..Len(bits) : bits[j] = 1

Zero == [neg |-> FALSE, bits |-> <<>>, exp |-> 0]

\* The value (-1)^neg * N(bits) * 2^exp, in the form that makes equal values
\* equal records.
Dyadic(neg, bits, exp) ==
  IF \A i \in 1..Len(bits) : bits[i] = 0 THEN Zero
  ELSE [neg |-> neg,
        bits |-> SubSeq(bits, FirstOne(bits), LastOne(bits)),
        exp |-> exp + Len(bits) - LastOne(bits)]

FromNat(n) == Dyadic(FALSE, NatToBits(n), 0)

Negate(x) == IF x = Zero THEN Zero ELSE [x EXCEPT !.neg = ~@]

\* bits + 1
IncBits(bits) ==
  IF \A i \in 1..Len(bits) : bits[i] = 1 THEN <<1>> \o Zeros(Len(bits))
  ELSE SubSeq(bits, 1, LastZero(bits) - 1) \o <<1>> \o Zeros(Len(bits) - LastZero(bits))

\* Rounding to 53 significant digits, to nearest, ties to even; bits starts
\* with a 1, and sticky tells that a non-zero rest was cut off after bits.
RoundSignificand(neg, bits, exp, sticky) ==
  IF Len(bits) <= 53 THEN Dyadic(neg, bits, exp)
  ELSE IF bits[54] = 1 /\ (sticky \/ bits[53] = 1 \/ \E i \in 55..Len(bits) : bits[i] = 1)
       THEN Dyadic(neg, IncBits(SubSeq(bits, 1, 53)), exp + Len(bits) - 53)
       ELSE Dyadic(neg, SubSeq(bits, 1, 53), exp + Len(bits) - 53)

RoundToDouble(neg, bits, exp, sticky) ==
  IF \A i \in 1..Len(bits) : bits[i] = 0 THEN Zero
  ELSE RoundSignificand(neg, SubSeq(bits, FirstOne(bits), Len(bits)), exp, sticky)

SquareMod(x, b) == (x * x) % b

\* 2^k modulo b
RECURSIVE Pow2Mod(_, _)
Pow2Mod(k, b) ==
  IF k = 0 THEN 1 % b
  ELSE IF k % 2 = 0 THEN SquareMod(Pow2Mod(k \div 2, b), b)
  ELSE (2 * Pow2Mod(k - 1, b)) % b

\* The next n binary digits of rem / b after the point, rem < b, and then
\* the remainder left.
DivBits(rem, b, n) ==
  [i \in 1..(n + 1) |->
     IF i <= n THEN (2 * ((rem * Pow2Mod(i - 1, b)) % b)) \div b
     ELSE (rem * Pow2Mod(n, b)) % b]

DivideWith(a, b, n, q) ==
  RoundToDouble(FALSE, NatToBits(a \div b) \o SubSeq(q, 1, n), 0 - n, q[n + 1] # 0)

DivideTo(a, b, n) == DivideWith(a, b, n, DivBits(a % b, b, n))

\* a / b of two naturals, b > 0: enough digits for 53 significant ones and
\* the one after them, the rest known from the remainder.
Divide(a, b) == DivideTo(a, b, 54 + Len(NatToBits(b)))

\* x * 2^k
Shift(x, k) == IF x = Zero THEN Zero ELSE [x EXCEPT !.exp = @ + k]

Min(a, b) == IF a <= b THEN a ELSE b
Max(a, b) == IF a >= b THEN a ELSE b

\* The digits of |x| in units of 2^e, n of them.
AlignedBits(x, e, n) ==
  Zeros(n - Len(x.bits) - (x.exp - e)) \o x.bits \o Zeros(x.exp - e)

\* The carry into the i-th digit of a + b, two rows of as many digits.
CarryInto(a, b, i) ==
  \E j \in (i + 1)..Len(a) :
    a[j] + b[j] = 2 /\ \A k \in (i + 1)..(j - 1) : a[k] + b[k] = 1

AddBits(a, b) ==
  [i \in 1..(Len(a) + 1) |->
     IF i = 1 THEN (IF CarryInto(a, b, 0) THEN 1 ELSE 0)
     ELSE (a[i - 1] + b[i - 1] + (IF CarryInto(a, b, i - 1) THEN 1 ELSE 0)) % 2]

\* The borrow from the i-th digit of a - b.
BorrowFrom(a, b, i) ==
  \E j \in (i + 1)..Len(a) :
    a[j] < b[j] /\ \A k \in (i + 1)..(j - 1) : a[k] = b[k]

\* a - b, for a >= b
SubBits(a, b) ==
  [i \in 1..Len(a) |-> (2 + a[i] - b[i] - (IF BorrowFrom(a, b, i) THEN 1 ELSE 0)) % 2]

LessBits(a, b) == \E i \in 1..Len(a) : a[i] < b[i] /\ \A j \in 1..(i - 1) : a[j] = b[j]

SumAligned(xneg, a, yneg, b, e) ==
  IF xneg = yneg THEN Dyadic(xneg, AddBits(a, b), e)
  ELSE IF LessBits(a, b) THEN Dyadic(yneg, SubBits(b, a), e)
  ELSE Dyadic(xneg, SubBits(a, b), e)

SumIn(x, y, e, n) == SumAligned(x.neg, AlignedBits(x, e, n), y.neg, AlignedBits(y, e, n), e)

\* x + y, exactly
Sum(x, y) ==
  SumIn(x, y, Min(x.exp, y.exp),
        Max(Len(x.bits) + x.exp, Len(y.bits) + y.exp) - Min(x.exp, y.exp))

\* x * c of a dyadic and a natural, exactly
RECURSIVE Product(_, _)
Product(x, c) ==
  IF c = 0 THEN Zero
  ELSE IF c = 1 THEN x
  ELSE IF c % 2 = 0 THEN Shift(Product(x, c \div 2), 1)
  ELSE Sum(Shift(Product(x, c \div 2), 1), x)

ToDouble(x) == RoundToDouble(x.neg, x.bits, x.exp, FALSE)

\* x * c of a double and a natural
Multiply(x, c) == ToDouble(Product(x, c))

\* x - y of two doubles
Subtract(x, y) == ToDouble(Sum(x, Negate(y)))

\* x >= n of a double and a natural
Geq(x, n) == ~Sum(x, Negate(FromNat(n))).neg

\* The greatest integer that is at most x; a digit after the point of x is
\* never the last zero of bits, so x with exp < 0 is no integer.
Floor(x) ==
  IF x.exp >= 0 THEN (IF x.neg THEN 0 - 1 ELSE 1) * BitsToNat(x.bits) * Pow2(x.exp)
  ELSE IF x.neg THEN 0 - (BitsToNat(SubSeq(x.bits, 1, Len(x.bits) + x.exp)) + 1)
  ELSE BitsToNat(SubSeq(x.bits, 1, Len(x.bits) + x.exp))

Half == Dyadic(FALSE, <<1>>, 0 - 1)

\* A variant of Math.round that rounds down.
MathRoundDown(x) == Floor(x)

\* Math.round of a double: the integer nearest to x, a half going up.
MathRoundDouble(x) == Floor(Sum(x, Half))

(***************************************************************************)
(* Column identifier                                                       *)
(***************************************************************************)

\* values.push(result.value), for one record
PushValid(values, row, column) ==
  IF hasOwnProperty(row, column) /\ parseNPSValue(Get(row, column)).valid
  THEN Append(values, parseNPSValue(Get(row, column)).value)
  ELSE values

\* The valid values of a column, in record order (lines 173-183).
RECURSIVE ColumnValues(_, _)
ColumnValues(data, column) ==
  IF Len(data) = 0 THEN <<>>
  ELSE PushValid(ColumnValues(SubSeq(data, 1, Len(data) - 1), column), data[Len(data)], column)

hasLowValues(values) == \E i \in 1..Len(values) : InRange(values[i], 0, 3)
hasMidValues(values) == \E i \in 1..Len(values) : InRange(values[i], 4, 7)
hasHighValues(values) == \E i \in 1..Len(values) : InRange(values[i], 8, 10)

hasExpectedRange(values) ==
  \/ (hasLowValues(values) /\ hasMidValues(values))
  \/ (hasMidValues(values) /\ hasHighValues(values))
  \/ (hasLowValues(values) /\ hasHighValues(values))
  \/ (Len(values) > 0 /\ (hasLowValues(values) \/ hasMidValues(values) \/ hasHighValues(values)))

\* The statistics of lines 186-211; averageValue, which nothing reads, is left out.
ColumnStats(values, records) ==
  [validCount |-> Len(values),
   validPercentage |-> IF records > 0 THEN Multiply(Divide(Len(values), records), 100) ELSE Zero,
   hasExpectedRange |-> hasExpectedRange(values)]

analyzeColumnValues(data, column) == ColumnStats(ColumnValues(data, column), Len(data))

possibleColumnNames ==
  << "nps", "nota", "score", "avaliação", "avaliacao", "nota nps", "pontuação", "pontuacao",
     "recomendação", "recomendacao", "indicação", "indicacao", "satisfação", "satisfacao",
     "classificação", "classificacao", "rating", "rate", "nota de 0 a 10", "avaliação de 0 a 10",
     "qual nota você daria", "qual nota voce daria", "de 0 a 10", "escala de 0 a 10" >>

isNameSuggestive(column) ==
  \E i \in 1..Len(possibleColumnNames) : Includes(ToLowerCase(column), possibleColumnNames[i])

\* A variant of the rules without the lenient one for a suggestive name.
QualifiesStrict(suggestive, stats) ==
  \/ (suggestive /\ Geq(stats.validPercentage, 30) /\ stats.hasExpectedRange)
  \/ (~suggestive /\ Geq(stats.validPercentage, 50) /\ stats.hasExpectedRange)

\* row.hasOwnProperty is not the inherited method when the record has a key
\* of that name: its value is a string, and the call raises a TypeError.
ShadowsHasOwnProperty(row) == hasOwnProperty(row, "hasOwnProperty")

\* A variant of the rules that trusts a suggestive name whatever the content.
QualifiesByName(suggestive, stats) ==
  \/ suggestive
  \/ (~suggestive /\ Geq(stats.validPercentage, 50) /\ stats.hasExpectedRange)

\* The three rules of lines 255-264.
Qualifies(suggestive, stats) ==
  \/ (suggestive /\ Geq(stats.validPercentage, 30) /\ stats.hasExpectedRange)
  \/ (~suggestive /\ Geq(stats.validPercentage, 50) /\ stats.hasExpectedRange)
  \/ (suggestive /\ Geq(stats.validPercentage, 10) /\ stats.hasExpectedRange)

\* Whether the loop of identifyNPSColumns pushes the column.
IsIdentified(data, column) ==
  Qualifies(isNameSuggestive(column), analyzeColumnValues(data, column))

NotRowId(column) == column # "_rowId"

\* The columns the loop analyses (lines 246-249).
AnalyzedColumns(data) == SelectSeq(Keys(data[1]), NotRowId)

\* The loop over the analysed columns from the i-th on.
RECURSIVE IdentifyFrom(_, _, _, _)
IdentifyFrom(data, columns, i, identifiedColumns) ==
  IF i > Len(columns) THEN identifiedColumns
  ELSE IdentifyFrom(data, columns, i + 1,
                    IF IsIdentified(data, columns[i])
                    THEN Append(identifiedColumns, columns[i])
                    ELSE identifiedColumns)

identifyNPSColumns(data) ==
  IF Len(data) = 0 THEN [columns |-> <<>>, analyzedColumns |-> <<>>]
  ELSE [columns |-> Unique(IdentifyFrom(data, AnalyzedColumns(data), 1, <<>>)),
        analyzedColumns |-> AnalyzedColumns(data)]

\* identifyNPSColumns raises: analyzeColumnValues calls row.hasOwnProperty on
\* every record, for every column analysed (line 175).
identifyNPSColumnsThrows(data) ==
  /\ Len(data) > 0
  /\ Len(AnalyzedColumns(data)) > 0
  /\ \E r \in 1..Len(data) : ShadowsHasOwnProperty(data[r])

(***************************************************************************)
(* NPS calculator                                                          *)
(***************************************************************************)

emptyNPSData(colsIdentified, colsAnalyzed, valsIgnored) ==
  [score |-> 0,
   detratores |-> 0,
   neutros |-> 0,
   promotores |-> 0,
   totalRespostas |-> 0,
   percentualDetratores |-> Zero,
   percentualNeutros |-> Zero,
   percentualPromotores |-> Zero,
   respostasPorNota |-> [i \in {} |-> 0],
   categoriaPorNota |-> [i \in {} |-> NEUTRO],
   colunasIdentificadas |-> colsIdentified,
   respostasInvalidas |-> Len(valsIgnored),
   debug |-> [colunasAnalisadas |-> colsAnalyzed, valoresIgnorados |-> valsIgnored]]

\* The counters before the scan (lines 332-344).
InitialCounts ==
  [detratores |-> 0, neutros |-> 0, promotores |-> 0, totalRespostas |-> 0,
   respostasInvalidasCount |-> 0,
   respostasPorNota |-> [i \in 0..10 |-> 0],
   categoriaPorNota |-> [i \in 0..10 |-> getNPSCategory(Num(i, 0))],
   valoresIgnorados |-> <<>>]

\* f[k] = (f[k] || 0) + 1
Increment(f, k) ==
  IF k \in DOMAIN f THEN [f EXCEPT ![k] = @ + 1]
  ELSE [i \in (DOMAIN f) \cup {k} |-> IF i = k THEN 1 ELSE f[i]]

\* A variant of the valid branch that files the score under its integer part.
CountValidByIntegerPart(acc, score, category) ==
  [acc EXCEPT
     !.totalRespostas = @ + 1,
     !.respostasPorNota = Increment(@, score.m \div Pow10(-score.e)),
     !.detratores = IF category = DETRATOR THEN @ + 1 ELSE @,
     !.neutros = IF category = NEUTRO THEN @ + 1 ELSE @,
     !.promotores = IF category = PROMOTOR THEN @ + 1 ELSE @]

\* The branch of a valid result (lines 353-366).
CountValid(acc, score, category) ==
  [acc EXCEPT
     !.totalRespostas = @ + 1,
     !.respostasPorNota = Increment(@, MathRound(score)),
     !.detratores = IF category = DETRATOR THEN @ + 1 ELSE @,
     !.neutros = IF category = NEUTRO THEN @ + 1 ELSE @,
     !.promotores = IF category = PROMOTOR THEN @ + 1 ELSE @]

\* A variant of the invalid branch that also counts the cell as an answer.
CountInvalidAsAnswer(acc, scoreValue) ==
  IF Trim(scoreValue) # ""
  THEN [acc EXCEPT
          !.totalRespostas = @ + 1,
          !.respostasInvalidasCount = @ + 1,
          !.valoresIgnorados = SetAdd(@, scoreValue)]
  ELSE acc

\* A variant of the invalid branch that records every value it ignores.
CountInvalidRepeating(acc, scoreValue) ==
  IF Trim(scoreValue) # ""
  THEN [acc EXCEPT
          !.respostasInvalidasCount = @ + 1,
          !.valoresIgnorados = Append(@, scoreValue)]
  ELSE acc

\* The branch of an invalid result (lines 367-372).
CountInvalid(acc, scoreValue) ==
  IF Trim(scoreValue) # ""
  THEN [acc EXCEPT
          !.respostasInvalidasCount = @ + 1,
          !.valoresIgnorados = SetAdd(@, scoreValue)]
  ELSE acc

CountParsed(acc, scoreValue, result) ==
  IF result.valid /\ result.value.kind # "null"
  THEN CountValid(acc, result.value, getNPSCategory(result.value))
  ELSE CountInvalid(acc, scoreValue)

\* One turn of the inner loop (lines 348-373): one cell of one record.
CountCell(acc, row, scoreColumn) ==
  IF ~hasOwnProperty(row, scoreColumn) THEN acc
  ELSE CountParsed(acc, Get(row, scoreColumn), parseNPSValue(Get(row, scoreColumn)))

\* The inner loop over the score columns, for one record.
RECURSIVE CountRow(_, _, _)
CountRow(acc, row, columns) ==
  IF Len(columns) = 0 THEN acc
  ELSE CountRow(CountCell(acc, row, columns[1]), row, SubSeq(columns, 2, Len(columns)))

\* The outer loop over the records (lines 346-375).
RECURSIVE CountRows(_, _, _)
CountRows(acc, data, columns) ==
  IF Len(data) = 0 THEN acc
  ELSE CountRows(CountRow(acc, data[1], columns), SubSeq(data, 2, Len(data)), columns)

\* (count / totalRespostas) * 100
Percentual(count, totalRespostas) == Multiply(Divide(count, totalRespostas), 100)

\* What calculateNPS returns after the scan (lines 377-405).
Summary(c, identifiedScoreColumns, analyzedColumns) ==
  IF c.totalRespostas = 0
  THEN emptyNPSData(identifiedScoreColumns, analyzedColumns, c.valoresIgnorados)
  ELSE [score |-> MathRoundDouble(Subtract(Percentual(c.promotores, c.totalRespostas),
                                         Percentual(c.detratores, c.totalRespostas))),
        detratores |-> c.detratores,
        neutros |-> c.neutros,
        promotores |-> c.promotores,
        totalRespostas |-> c.totalRespostas,
        percentualDetratores |-> Percentual(c.detratores, c.totalRespostas),
        percentualNeutros |-> Percentual(c.neutros, c.totalRespostas),
        percentualPromotores |-> Percentual(c.promotores, c.totalRespostas),
        respostasPorNota |-> c.respostasPorNota,
        categoriaPorNota |-> c.categoriaPorNota,
        colunasIdentificadas |-> identifiedScoreColumns,
        respostasInvalidas |-> c.respostasInvalidasCount,
        debug |-> [colunasAnalisadas |-> analyzedColumns,
                   valoresIgnorados |-> c.valoresIgnorados]]

\* The scan and the summary, for the columns chosen.
Scan(data, identifiedScoreColumns, analyzedColumns) ==
  Summary(CountRows(InitialCounts, data, identifiedScoreColumns),
          identifiedScoreColumns, analyzedColumns)

\* The branch of lines 322-329: the identifier chooses the columns.
Identified(data, result) ==
  IF Len(result.columns) = 0
  THEN emptyNPSData(<<>>, result.analyzedColumns, <<>>)
  ELSE Scan(data, result.columns, result.analyzedColumns)

\* A variant of calculateNPS that asks the identifier whatever the caller gives.
calculateNPSIdentifying(data, npsScoreColumns) ==
  IF Len(data) = 0 THEN emptyNPSData(<<>>, <<>>, <<>>)
  ELSE Identified(data, identifyNPSColumns(data))

\* npsScoreColumns is <<>> when the caller gives no columns.
calculateNPS(data, npsScoreColumns) ==
  IF Len(data) = 0 THEN emptyNPSData(<<>>, <<>>, <<>>)
  ELSE IF Len(npsScoreColumns) > 0
       THEN Scan(data, npsScoreColumns, Keys(data[1]))
       ELSE Identified(data, identifyNPSColumns(data))

\* calculateNPS raises: in the identifier, or in its own scan, which calls
\* row.hasOwnProperty on every record for every score column (line 348).
calculateNPSThrows(data, npsScoreColumns) ==
  /\ Len(data) > 0
  /\ IF Len(npsScoreColumns) > 0
     THEN \E r \in 1..Len(data) : ShadowsHasOwnProperty(data[r])
     ELSE identifyNPSColumnsThrows(data)

getNPSClassification(score) ==
  IF score < 0 THEN "Crítico"
  ELSE IF score >= 0 /\ score <= 30 THEN "Ruim"
  ELSE IF score > 30 /\ score <= 50 THEN "Bom"
  ELSE IF score > 50 /\ score <= 75 THEN "Muito Bom"
  ELSE "Excelente"

\* A variant of getNPSColor whose bands exclude their upper ends.
getNPSColorStrict(score) ==
  IF score < 0 THEN "#FF4136"
  ELSE IF score >= 0 /\ score < 30 THEN "#FF851B"
  ELSE IF score >= 30 /\ score < 50 THEN "#FFDC00"
  ELSE IF score >= 50 /\ score < 75 THEN "#2ECC40"
  ELSE "#0074D9"

getNPSColor(score) ==
  IF score < 0 THEN "#FF4136"
  ELSE IF score >= 0 /\ score <= 30 THEN "#FF851B"
  ELSE IF score > 30 /\ score <= 50 THEN "#FFDC00"
  ELSE IF score > 50 /\ score <= 75 THEN "#2ECC40"
  ELSE "#0074D9"

(***************************************************************************)
(* Tokenizer                                                               *)
(***************************************************************************)

\* The place of the first occurrence of character c in s, 0 when absent.
IndexOf(s, c) ==
  IF \E i \in 1..Len(s) : CharAt(s, i) = c
  THEN CHOOSE i \in 1..Len(s) : CharAt(s, i) = c /\ \A j \in 1..(i - 1) : CharAt(s, j) # c
  ELSE 0

\* text.split(/\r?\n/)
RECURSIVE SplitLines(_)
SplitLines(text) ==
  LET n == IndexOf(text, "\n")
      upTo == SubSeq(text, 1, n - 1)
      line == IF Len(upTo) > 0 /\ CharAt(upTo, Len(upTo)) = "\r"
              THEN SubSeq(upTo, 1, Len(upTo) - 1)
              ELSE upTo
  IN  IF n = 0 THEN <<text>>
      ELSE <<line>> \o SplitLines(SubSeq(text, n + 1, Len(text)))

\* (line.match(/c/g) || []).length
RECURSIVE CountChar(_, _)
CountChar(s, c) ==
  IF Len(s) = 0 THEN 0
  ELSE (IF CharAt(s, 1) = c THEN 1 ELSE 0) + CountChar(SubSeq(s, 2, Len(s)), c)

\* Object.entries(counts): the candidates in the order the loop visits them
Candidates == <<",", ";", "\t">>

\* lines.find(line => line.trim() !== ''); "" stands for undefined
RECURSIVE FirstNonBlank(_)
FirstNonBlank(lines) ==
  IF Len(lines) = 0 THEN ""
  ELSE IF Trim(lines[1]) # "" THEN lines[1]
  ELSE FirstNonBlank(SubSeq(lines, 2, Len(lines)))

\* A variant of the loop that lets a later candidate win a tie.
RECURSIVE PickSeparatorLast(_, _, _, _)
PickSeparatorLast(firstLine, i, maxCount, detectedSeparator) ==
  IF i > Len(Candidates) THEN detectedSeparator
  ELSE LET count == CountChar(firstLine, Candidates[i])
       IN  IF count >= maxCount
           THEN PickSeparatorLast(firstLine, i + 1, count, Candidates[i])
           ELSE PickSeparatorLast(firstLine, i + 1, maxCount, detectedSeparator)

\* The loop of detectSeparator over the candidates from the i-th on.
RECURSIVE PickSeparator(_, _, _, _)
PickSeparator(firstLine, i, maxCount, detectedSeparator) ==
  IF i > Len(Candidates) THEN detectedSeparator
  ELSE LET count == CountChar(firstLine, Candidates[i])
       IN  IF count > maxCount
           THEN PickSeparator(firstLine, i + 1, count, Candidates[i])
           ELSE PickSeparator(firstLine, i + 1, maxCount, detectedSeparator)

detectSeparator(csvText) ==
  IF Trim(csvText) = "" THEN ","
  ELSE LET firstLine == FirstNonBlank(SplitLines(csvText))
       IN  IF firstLine = "" THEN ","
           ELSE PickSeparator(firstLine, 1, 0, ",")

\* The character scan of one line (lines 628-654), from place i on.
RECURSIVE ScanLine(_, _, _, _, _, _)
ScanLine(line, separator, i, values, currentValue, inQuotes) ==
  IF i > Len(line) THEN Append(values, currentValue)
  ELSE LET char == CharAt(line, i)
       IN  IF char = "\""
           THEN IF i + 1 <= Len(line) /\ CharAt(line, i + 1) = "\""
                THEN ScanLine(line, separator, i + 2, values, currentValue \o "\"", inQuotes)
                ELSE ScanLine(line, separator, i + 1, values, currentValue, ~inQuotes)
           ELSE IF char = separator /\ ~inQuotes
                THEN ScanLine(line, separator, i + 1, Append(values, currentValue), "", inQuotes)
                ELSE ScanLine(line, separator, i + 1, values, currentValue \o char, inQuotes)

\* value.replace(/^"(.*)"$/, '$1'): the dot matches no line terminator
StripQuotes(value) ==
  IF /\ Len(value) >= 2
     /\ CharAt(value, 1) = "\""
     /\ CharAt(value, Len(value)) = "\""
     /\ \A i \in 2..(Len(value) - 1) : CharAt(value, i) \notin {"\n", "\r"}
  THEN SubSeq(value, 2, Len(value) - 1)
  ELSE value

\* cleaned.replace(/""/g, '"')
RECURSIVE CollapseQuotes(_)
CollapseQuotes(s) ==
  IF Len(s) = 0 THEN s
  ELSE IF StartsWith(s, "\"\"") THEN "\"" \o CollapseQuotes(SubSeq(s, 3, Len(s)))
  ELSE CharAt(s, 1) \o CollapseQuotes(SubSeq(s, 2, Len(s)))

CleanValue(value) == Trim(CollapseQuotes(StripQuotes(value)))

\* The row of one line; <<>> for a blank line.
ParseLine(line, separator) ==
  IF Trim(line) = "" THEN <<>>
  ELSE LET values == ScanLine(line, separator, 1, <<>>, "", FALSE)
       IN  [i \in 1..Len(values) |-> CleanValue(values[i])]

\* A variant of parseCSV that keeps the rows of the blank lines.
parseCSVKeepingBlankLines(csvText) ==
  IF Trim(csvText) = "" THEN <<>>
  ELSE LET separator == detectSeparator(csvText)
           lines == SplitLines(csvText)
       IN  [i \in 1..Len(lines) |-> ParseLine(lines[i], separator)]

parseCSV(csvText) ==
  IF Trim(csvText) = "" THEN <<>>
  ELSE LET separator == detectSeparator(csvText)
           lines == SplitLines(csvText)
           result == [i \in 1..Len(lines) |-> ParseLine(lines[i], separator)]
           NotEmpty(line) == Len(line) > 0
       IN  SelectSeq(result, NotEmpty)

(***************************************************************************)
(* Table builder                                                           *)
(***************************************************************************)

\* The decimal numeral of a natural number: `${n}`
RECURSIVE NatToStr(_)
NatToStr(n) ==
  IF n < 10 THEN CharAt(Digits, n + 1)
  ELSE NatToStr(n \div 10) \o CharAt(Digits, (n % 10) + 1)

normalizeHeader(header, index) ==
  IF Trim(header) = "" THEN "coluna_" \o NatToStr(index) ELSE Trim(header)

\* normalizedHeaders.forEach from the i-th header on
RECURSIVE FillRow(_, _, _, _)
FillRow(obj, normalizedHeaders, row, i) ==
  IF i > Len(normalizedHeaders) THEN obj
  ELSE FillRow(ObjSet(obj, normalizedHeaders[i], IF i <= Len(row) THEN row[i] ELSE ""),
               normalizedHeaders, row, i + 1)

\* A variant of the test of the header that only asks for a cell.
hasNoHeaderCell(headers) == Len(headers) = 0

\* headers.length === 0 || headers.every(h => h.trim() === '')
hasNoUsableHeader(headers) ==
  Len(headers) = 0 \/ \A i \in 1..Len(headers) : Trim(headers[i]) = ""

csvToObjects(csvData) ==
  IF Len(csvData) < 1 THEN <<>>
  ELSE IF Len(csvData) = 1 THEN <<>>
  ELSE LET headers == csvData[1]
           normalizedHeaders == [i \in 1..Len(headers) |-> normalizeHeader(headers[i], i)]
       IN  IF hasNoUsableHeader(headers)
           THEN <<>>
           ELSE [r \in 1..(Len(csvData) - 1) |->
                   ObjSet(FillRow(<<>>, normalizedHeaders, csvData[r + 1], 1),
                          "_rowId", "row_" \o NatToStr(r))]

\* Object.values(row).some(value => value.toString().trim() !== '')
hasContent(row) == \E i \in 1..Len(row) : Trim(row[i][2]) # ""

\* value.toString().trim()
cleanValue(value) == Trim(value)

\* The loop over Object.entries(row) that fills cleanRow, from the i-th entry on
RECURSIVE CleanRow(_, _, _)
CleanRow(cleanRow, row, i) ==
  IF i > Len(row) THEN cleanRow
  ELSE CleanRow(ObjSet(cleanRow, row[i][1], cleanValue(row[i][2])), row, i + 1)

cleanSheetData(data) ==
  IF Len(data) = 0 THEN <<>>
  ELSE LET kept == SelectSeq(data, hasContent)
       IN  [i \in 1..Len(kept) |-> CleanRow(<<>>, kept[i], 1)]

(***************************************************************************)
(* App: the form that loads a sheet                                        *)
(***************************************************************************)

\* [a-zA-Z0-9-_]
IdChars == "abcdefghijklmnopqrstuvwxyzABCDEFGHIJKLMNOPQRSTUVWXYZ0123456789-_"

IsIdChar(c) == \E i \in 1..Len(IdChars) : CharAt(IdChars, i) = c

\* The longest prefix of s matched by [a-zA-Z0-9-_]*
RECURSIVE IdRun(_)
IdRun(s) ==
  IF Len(s) > 0 /\ IsIdChar(CharAt(s, 1))
  THEN CharAt(s, 1) \o IdRun(SubSeq(s, 2, Len(s)))
  ELSE ""

\* The text from place i on matches prefix([a-zA-Z0-9-_]+)suffix; "/", which
\* starts every suffix, is no character of the class.
MatchesAt(text, i, prefix, suffix) ==
  /\ StartsWith(SubSeq(text, i, Len(text)), prefix)
  /\ Len(IdRun(SubSeq(text, i + Len(prefix), Len(text)))) > 0
  /\ StartsWith(SubSeq(text, i + Len(prefix) + Len(IdRun(SubSeq(text, i + Len(prefix), Len(text)))),
                       Len(text)),
                suffix)

\* pattern.test(text), for a pattern without anchors
Test(text, prefix, suffix) == \E i \in 1..Len(text) : MatchesAt(text, i, prefix, suffix)

SheetPrefix == "https://docs.google.com/spreadsheets/d/"

validateUrl(address) ==
  IF Trim(address) = "" THEN FALSE
  ELSE \/ Test(address, SheetPrefix, "/edit")
       \/ Test(address, SheetPrefix \o "e/", "/pub")
       \/ Test(address, SheetPrefix, "/export")

\* What fetchSheetData returns for the text of the response (lines 575-585).
FetchedRows(text) == IF Trim(text) = "" THEN <<>> ELSE parseCSV(text)

(***************************************************************************)
(* State                                                                   *)
(***************************************************************************)

VARIABLES
  pc,               \* the stage the run is at
  csvText,          \* the raw delimited text
  written,          \* the field contents csvText was written from, <<>> if none
  quotedAt,         \* the place in written of the field written quoted, 0 if none
  separator,        \* the result of detectSeparator, "" before the call
  csvData,          \* the table parseCSV returned
  inputData,        \* the records as they were before any cleaning
  objectData,       \* the records (handleSubmit's objectData)
  npsScoreColumns,  \* the explicit score columns, <<>> when the caller gives none
  npsData,          \* <<summary>> once calculateNPS has returned, <<>> before
  nota,             \* the grade given to getNPSCategory
  categoria,        \* its category, "" before the call
  npsScore,         \* the final score given to getNPSClassification / getNPSColor
  classificacao,    \* the classification, "" before the call
  cor,              \* the colour, "" before the call
  cell,             \* the value given to parseNPSValue
  parsed,           \* <<result>> once parseNPSValue has returned, <<>> before
  identification,   \* <<result>> once identifyNPSColumns has returned, <<>> before
  error,            \* App's error message
  isLoading,        \* App's isLoading
  showDashboard,    \* App's showDashboard
  url,              \* App's url
  dataInfo          \* App's dataInfo, <<>> for null

\* The state of the score parser, of the column identifier and of App.
rest == <<cell, parsed, identification, error, isLoading, showDashboard, url, dataInfo>>

vars == <<pc, csvText, written, quotedAt, separator, csvData, inputData, objectData,
          npsScoreColumns, npsData, nota, categoria, npsScore, classificacao, cor,
          cell, parsed, identification, error, isLoading, showDashboard, url, dataInfo>>

(***************************************************************************)
(* Bounds and inputs                                                       *)
(***************************************************************************)

MaxTextLen == 5
MaxContentLen == 3
MaxRows == 2
MaxCols == 2
MaxCellLen == 3
Margin == 20

\* All strings of at most n characters of the alphabet.
RECURSIVE Strings(_, _)
Strings(alphabet, n) ==
  IF n = 0 THEN {""}
  ELSE LET shorter == Strings(alphabet, n - 1)
       IN  shorter \cup {s \o c : s \in shorter, c \in alphabet}

\* All sequences of at most n elements of S.
RECURSIVE SeqsUpTo(_, _)
SeqsUpTo(S, n) ==
  IF n = 0 THEN {<<>>}
  ELSE LET shorter == SeqsUpTo(S, n - 1)
       IN  shorter \cup {Append(q, x) : q \in shorter, x \in S}

TextAlphabet == {"a", ",", ";", "\t", "\"", "\n", "\r"}

ExampleTexts ==
  { "x;y;z\n1;2;3",
    "a,b\n1,2\n,,\n3,4",
    "\"He said \"\"hi\"\", cool\"",
    "nota,nome\n9, ana \n\n7,\"b,c\"\r\n,,",
    "a\n" \o NoBreakSpace \o VerticalTab \o "\n" \o NoBreakSpace \o "1" \o VerticalTab }

FreeTexts == Strings(TextAlphabet, MaxTextLen) \cup ExampleTexts

\* A field written quoted: wrapped in quotes, each inner quote doubled.
RECURSIVE DoubleQuotes(_)
DoubleQuotes(s) ==
  IF Len(s) = 0 THEN s
  ELSE (IF CharAt(s, 1) = "\"" THEN "\"\"" ELSE CharAt(s, 1)) \o DoubleQuotes(SubSeq(s, 2, Len(s)))

QuoteField(content) == "\"" \o DoubleQuotes(content) \o "\""

\* The comma-separated line of the fields, the q-th written quoted.
RECURSIVE WriteLine(_, _, _)
WriteLine(fields, q, i) ==
  IF i > Len(fields) THEN ""
  ELSE (IF i > 1 THEN "," ELSE "")
       \o (IF i = q THEN QuoteField(fields[i]) ELSE fields[i])
       \o WriteLine(fields, q, i + 1)

ContentAlphabet == {"a", "\"", ",", " "}
PlainFields == {"", "a", " a"}
Neighbours == SeqsUpTo(PlainFields, 1)

ScoreCells == {"", " ", "3", "6.5", "9", "n/a"}
OtherCells == {"8", "n/a"}

\* A record as csvToObjects builds it, with its row identifier last.
ScoreRows ==
  {<< <<"nota", v>> >> : v \in ScoreCells}
    \cup {<< <<"nota", v>>, <<"x", w>> >> : v \in ScoreCells, w \in OtherCells}

WithRowIds(rows) ==
  [i \in 1..Len(rows) |-> Append(rows[i], <<"_rowId", "row_" \o NatToStr(i)>>)]

GeneratedData == {WithRowIds(rows) : rows \in SeqsUpTo(ScoreRows, MaxRows)}

ColumnChoices == {<<>>, <<"nota">>, <<"x">>, <<"nota", "x">>}

ExampleScores ==
  << << <<"score", "9">> >>, << <<"score", "9">> >>,
     << <<"score", "3">> >>, << <<"score", "7">> >> >>

\* Eight answers, three promoters and four detractors: a score of -12.5.
ExampleHalf ==
  WithRowIds(<< << <<"nota", "9">>, <<"x", "3">> >>, << <<"nota", "9">>, <<"x", "3">> >>,
                << <<"nota", "9">>, <<"x", "3">> >>, << <<"nota", "7">>, <<"x", "3">> >> >>)

\* Twenty-four answers, two promoters and five detractors: a score of -12.5.
ExampleTie ==
  [i \in 1..24 |-> << <<"nota", IF i <= 2 THEN "9" ELSE IF i <= 7 THEN "3" ELSE "7">> >>]

\* Four records with one valid score in each column: a quarter.
ExampleQuarter ==
  WithRowIds([i \in 1..4 |-> << <<"nota", IF i = 2 THEN "9" ELSE "n/a">>,
                                <<"x", IF i = 3 THEN "8" ELSE "">> >>])

\* One valid score in ten records, and in eleven.
ExampleTenth == WithRowIds([i \in 1..10 |-> << <<"Nota NPS", IF i = 10 THEN "0" ELSE "">> >>])

ExampleEleventh == WithRowIds([i \in 1..11 |-> << <<"Nota NPS", IF i = 1 THEN "0" ELSE "">> >>])

\* Valid scores that lie in none of the bands 0..3, 4..7 and 8..10.
ExampleOffBand ==
  WithRowIds(<< << <<"score", "3.5">>, <<"y", "7.5">> >>,
                << <<"score", "7.5">>, <<"y", "3.5">> >> >>)

\* Records that were not cleaned: unparseable cells with and without padding.
ExamplePadded ==
  WithRowIds(<< << <<"nota", " n/a ">>, <<"x", "?">> >>, << <<"nota", "n/a">>, <<"x", "">> >>,
                << <<"nota", " n/a ">>, <<"x", "8">> >>, << <<"nota", "9">>, <<"x", "?">> >> >>)

\* Records that were not cleaned, with the white space that has no key of its
\* own: padded scores, a padded text and cells of nothing else.
ExampleNoBreak ==
  WithRowIds(<< << <<"nota", NoBreakSpace \o "8">>, <<"x", VerticalTab>> >>,
                << <<"nota", VerticalTab \o "9" \o NoBreakSpace>>, <<"x", NoBreakSpace>> >>,
                << <<"nota", NoBreakSpace \o "n/a">>, <<"x", " " \o VerticalTab>> >>,
                << <<"nota", ZeroWidthNoBreakSpace \o "-1e-400">>, <<"x", OghamSpaceMark>> >> >>)

\* Records of a sheet with a column named "hasOwnProperty".
ExampleShadow ==
  WithRowIds(<< << <<"nota", "9">>, <<"hasOwnProperty", "5">> >>,
                << <<"nota", "3">>, <<"hasOwnProperty", "">> >> >>)

\* The same, without a valid score.
ExampleShadowUnscored ==
  WithRowIds(<< << <<"nota", "n/a">>, <<"hasOwnProperty", "x">> >> >>)

\* The record of a sheet whose only column is named "_rowId".
ExampleOnlyRowId == << << <<"_rowId", "row_1">> >> >>

IdentifyData ==
  GeneratedData \cup {ExampleQuarter, ExampleTenth, ExampleEleventh, ExampleOffBand, ExampleHalf,
                      ExampleShadow, ExampleOnlyRowId, ExampleNoBreak}

CleanCells == {"", " ", "a", " a "}

\* Records with and without a row identifier, and records with an own key
\* "__proto__", as JSON.parse makes them.
CleanRows ==
  {<< <<"a", v>>, <<"b", w>> >> : v \in CleanCells, w \in CleanCells}
    \cup {<< <<"a", v>>, <<"b", w>>, <<"_rowId", "row_1">> >> : v \in CleanCells, w \in CleanCells}
    \cup {<< <<"__proto__", v>>, <<"a", w>> >> : v \in CleanCells, w \in CleanCells}

\* Tables given to csvToObjects: a header of up to MaxCols cells, and data rows
\* shorter than, as long as and longer than it.
HeaderCells == {"", "a", " b", "coluna_2", "_rowId", "__proto__"}

DataRows == {<<>>, <<"1">>, <<"", "1">>, <<"1", "">>, <<"", "">>, <<"1", "1", "1">>}

\* Tables whose header has a cell of white space that is not the space, and a
\* padded one.
ExampleTables ==
  { << <<NoBreakSpace, VerticalTab \o "b" \o NoBreakSpace>>, <<"1", "2">> >>,
    << <<VerticalTab, NoBreakSpace>>, <<"1", "2">> >>,
    << <<ZeroWidthNoBreakSpace \o "nota", OghamSpaceMark>>, <<"1", "2">> >> }

Tables ==
  {<<>>} \cup {<<headers>> \o rows : headers \in SeqsUpTo(HeaderCells, MaxCols),
                                     rows \in SeqsUpTo(DataRows, MaxRows)}
         \cup ExampleTables

\* Inputs of parseNPSValue: every short text of digits, signs, white space and
\* letters, texts with keywords, numbers inside and outside 0..10, and the
\* absent values.
CellAlphabet == {"0", "1", ".", "-", " ", "b", "o", "m"}

KeywordTexts ==
  { "muito bom", "Muito Bom!", "bom e ruim", "nem ruim nem bom", "insatisfeito",
    "satisfeito", "OTIMO", "Ótimo", "ótimo, excelente", "perfeito e excelente",
    "péssimo", "pessimo mas perfeito", "regular", "médio", "medio", "neutro",
    "nada a dizer", "nota 9", "9 ruim", "10 perfeito", "11 bom", "-3 bom",
    " 7 ", "1e1", "Infinity", "+4.5abc",
    NoBreakSpace \o "8", VerticalTab \o "9" \o NoBreakSpace, NoBreakSpace, VerticalTab,
    NoBreakSpace \o "bom" \o VerticalTab, "ÀS VEZES BOM", "MÉDIO", "PÉSSIMO", "ÑÜ",
    ZeroWidthNoBreakSpace \o "8", "9" \o OghamSpaceMark, ZeroWidthNoBreakSpace,
    "ΚΑΛΟΣ BOM", "ẞ", "1e400", "-1e400", "1e-400", "-1e-400", "0e999" }

TextInput(text) == [type |-> "string", text |-> text, num |-> NaN]

NumberInput(num) == [type |-> "number", text |-> "", num |-> num]

AbsentInput(type) == [type |-> type, text |-> "", num |-> NaN]

NumberValues ==
  {Num(t, -1) : t \in {-1, 0, 5, 75, 100, 101}} \cup
  {Num(t, 0) : t \in {-2, 0, 10, 11}} \cup {NaN, Infinity, NegInfinity}

\* The keywords of the table, each alone.
KeywordsAlone == {wordToValue[i][1] : i \in 1..Len(wordToValue)}

CellInputs ==
  {TextInput(text) :
     text \in Strings(CellAlphabet, MaxCellLen) \cup KeywordTexts \cup KeywordsAlone} \cup
  {NumberInput(num) : num \in NumberValues} \cup
  {AbsentInput("null"), AbsentInput("undefined")}

\* What the user types as the address of the sheet.
Urls ==
  { "", " ", NoBreakSpace \o VerticalTab, "planilha",
    SheetPrefix \o "abc/edit",
    SheetPrefix \o "e/2PACX-1v/pub",
    SheetPrefix \o "a_b-9/export?format=csv",
    SheetPrefix \o "/edit",
    "https://docs.google.com/forms/d/abc" }

\* The text the published sheet answers with.
SheetTexts ==
  { "", " \n ", "nota", "nota\n9\n3\n7", "nota\nn/a", "nota\n\n", "x\nabc\ndef",
    "nome,nota\nana,10", ",\n1,2", "nota,hasOwnProperty\n9,5", "nota;x\n9;8\n;",
    "nps\n11", "x\n5\n5", "\"nota\"\n\"bom\"", "a,b\n,", "nota\n10\n0",
    NoBreakSpace \o "\n" \o VerticalTab, "nota\n" \o NoBreakSpace \o "8\n" \o VerticalTab,
    ZeroWidthNoBreakSpace \o "nota\n9\n1e-400" }

Notas == {Num(t, -1) : t \in (0 - Margin)..(100 + Margin)} \cup {NaN}

FinalScores == (0 - 100)..100

(***************************************************************************)
(* Initial states: one per component, each drawing that component's input  *)
(***************************************************************************)

\* What the runs that are not of the parser, the identifier or App leave
\* those three at.
RestInit ==
  /\ cell = ""
  /\ parsed = <<>>
  /\ identification = <<>>
  /\ error = ""
  /\ isLoading = FALSE
  /\ showDashboard = FALSE
  /\ url = ""
  /\ dataInfo = <<>>

InitCSV ==
  /\ pc = "text"
  /\ \/ /\ csvText \in FreeTexts
        /\ written = <<>>
        /\ quotedAt = 0
     \/ \E before \in Neighbours, after \in Neighbours,
           content \in Strings(ContentAlphabet, MaxContentLen) :
          /\ written = before \o <<content>> \o after
          /\ quotedAt = Len(before) + 1
          /\ csvText = WriteLine(written, quotedAt, 1)
  /\ separator = ""
  /\ csvData = <<>>
  /\ inputData = <<>>
  /\ objectData = <<>>
  /\ npsScoreColumns = <<>>
  /\ npsData = <<>>
  /\ nota = NaN
  /\ categoria = ""
  /\ npsScore = 0
  /\ classificacao = ""
  /\ cor = ""
  /\ RestInit

InitClean ==
  /\ pc = "objects"
  /\ inputData \in SeqsUpTo(CleanRows, MaxRows) \cup {ExampleNoBreak}
  /\ objectData = inputData
  /\ csvText = ""
  /\ written = <<>>
  /\ quotedAt = 0
  /\ separator = ""
  /\ csvData = <<>>
  /\ npsScoreColumns = <<>>
  /\ npsData = <<>>
  /\ nota = NaN
  /\ categoria = ""
  /\ npsScore = 0
  /\ classificacao = ""
  /\ cor = ""
  /\ RestInit

InitCalc ==
  /\ pc = "records"
  /\ \/ /\ inputData \in GeneratedData
        /\ npsScoreColumns \in ColumnChoices
     \/ /\ inputData = ExampleScores
        /\ npsScoreColumns \in {<<>>, <<"score">>}
     \/ /\ inputData = ExampleHalf
        /\ npsScoreColumns \in {<<>>, <<"nota", "x">>}
     \/ /\ inputData = ExampleTie
        /\ npsScoreColumns \in {<<>>, <<"nota">>}
     \/ /\ inputData \in {ExampleShadow, ExampleShadowUnscored, ExampleOnlyRowId}
        /\ npsScoreColumns \in {<<>>, <<"nota">>}
     \/ /\ inputData \in {ExamplePadded, ExampleNoBreak}
        /\ npsScoreColumns \in {<<>>, <<"nota">>, <<"x", "nota">>}
  /\ objectData = inputData
  /\ csvText = ""
  /\ written = <<>>
  /\ quotedAt = 0
  /\ separator = ""
  /\ csvData = <<>>
  /\ npsData = <<>>
  /\ nota = NaN
  /\ categoria = ""
  /\ npsScore = 0
  /\ classificacao = ""
  /\ cor = ""
  /\ RestInit

InitIdentify ==
  /\ pc = "records"
  /\ inputData \in IdentifyData
  /\ objectData = inputData
  /\ npsScoreColumns = <<>>
  /\ csvText = ""
  /\ written = <<>>
  /\ quotedAt = 0
  /\ separator = ""
  /\ csvData = <<>>
  /\ npsData = <<>>
  /\ nota = NaN
  /\ categoria = ""
  /\ npsScore = 0
  /\ classificacao = ""
  /\ cor = ""
  /\ RestInit

InitTable ==
  /\ pc = "parsed"
  /\ csvData \in Tables
  /\ csvText = ""
  /\ written = <<>>
  /\ quotedAt = 0
  /\ separator = ""
  /\ inputData = <<>>
  /\ objectData = <<>>
  /\ npsScoreColumns = <<>>
  /\ npsData = <<>>
  /\ nota = NaN
  /\ categoria = ""
  /\ npsScore = 0
  /\ classificacao = ""
  /\ cor = ""
  /\ RestInit

InitParse ==
  /\ pc = "cell"
  /\ cell \in CellInputs
  /\ parsed = <<>>
  /\ csvText = ""
  /\ written = <<>>
  /\ quotedAt = 0
  /\ separator = ""
  /\ csvData = <<>>
  /\ inputData = <<>>
  /\ objectData = <<>>
  /\ npsScoreColumns = <<>>
  /\ npsData = <<>>
  /\ nota = NaN
  /\ categoria = ""
  /\ npsScore = 0
  /\ classificacao = ""
  /\ cor = ""
  /\ identification = <<>>
  /\ error = ""
  /\ isLoading = FALSE
  /\ showDashboard = FALSE
  /\ url = ""
  /\ dataInfo = <<>>

InitApp ==
  /\ pc = "idle"
  /\ csvText \in SheetTexts
  /\ url = ""
  /\ error = ""
  /\ isLoading = FALSE
  /\ showDashboard = FALSE
  /\ npsData = <<>>
  /\ dataInfo = <<>>
  /\ csvData = <<>>
  /\ objectData = <<>>
  /\ inputData = <<>>
  /\ written = <<>>
  /\ quotedAt = 0
  /\ separator = ""
  /\ npsScoreColumns = <<>>
  /\ nota = NaN
  /\ categoria = ""
  /\ npsScore = 0
  /\ classificacao = ""
  /\ cor = ""
  /\ cell = ""
  /\ parsed = <<>>
  /\ identification = <<>>

InitScore ==
  /\ pc = "score"
  /\ nota \in Notas
  /\ npsScore \in FinalScores
  /\ categoria = ""
  /\ classificacao = ""
  /\ cor = ""
  /\ RestInit
  /\ csvText = ""
  /\ written = <<>>
  /\ quotedAt = 0
  /\ separator = ""
  /\ csvData = <<>>
  /\ inputData = <<>>
  /\ objectData = <<>>
  /\ npsScoreColumns = <<>>
  /\ npsData = <<>>

(***************************************************************************)
(* Actions: one per exported function                                      *)
(***************************************************************************)

DetectSeparator ==
  /\ pc = "text"
  /\ separator' = detectSeparator(csvText)
  /\ pc' = "detected"
  /\ UNCHANGED <<csvText, written, quotedAt, csvData, inputData, objectData,
                 npsScoreColumns, npsData, nota, categoria, npsScore, classificacao, cor>>
  /\ UNCHANGED rest

ParseCSV ==
  /\ pc = "text"
  /\ csvData' = parseCSV(csvText)
  /\ pc' = "parsed"
  /\ UNCHANGED <<csvText, written, quotedAt, separator, inputData, objectData,
                 npsScoreColumns, npsData, nota, categoria, npsScore, classificacao, cor>>
  /\ UNCHANGED rest

CsvToObjects ==
  /\ pc = "parsed"
  /\ objectData' = csvToObjects(csvData)
  /\ inputData' = objectData'
  /\ pc' = "objects"
  /\ UNCHANGED <<csvText, written, quotedAt, separator, csvData,
                 npsScoreColumns, npsData, nota, categoria, npsScore, classificacao, cor>>
  /\ UNCHANGED rest

\* objectData = cleanSheetData(objectData), a first and a second time
CleanSheetData ==
  /\ pc \in {"objects", "cleaned"}
  /\ objectData' = cleanSheetData(objectData)
  /\ pc' = IF pc = "objects" THEN "cleaned" ELSE "recleaned"
  /\ UNCHANGED <<csvText, written, quotedAt, separator, csvData, inputData,
                 npsScoreColumns, npsData, nota, categoria, npsScore, classificacao, cor>>
  /\ UNCHANGED rest

CalculateNPS ==
  /\ pc = "records"
  /\ IF calculateNPSThrows(objectData, npsScoreColumns)
     THEN npsData' = npsData /\ pc' = "threw"
     ELSE npsData' = <<calculateNPS(objectData, npsScoreColumns)>> /\ pc' = "calculated"
  /\ UNCHANGED <<csvText, written, quotedAt, separator, csvData, inputData, objectData,
                 npsScoreColumns, nota, categoria, npsScore, classificacao, cor>>
  /\ UNCHANGED rest

ParseNPSValue ==
  /\ pc = "cell"
  /\ parsed' = <<parseNPSInput(cell)>>
  /\ pc' = "value"
  /\ UNCHANGED <<csvText, written, quotedAt, separator, csvData, inputData, objectData,
                 npsScoreColumns, npsData, nota, categoria, npsScore, classificacao, cor,
                 cell, identification, error, isLoading, showDashboard, url, dataInfo>>

IdentifyNPSColumns ==
  /\ pc = "records"
  /\ IF identifyNPSColumnsThrows(objectData)
     THEN identification' = identification /\ pc' = "threw"
     ELSE identification' = <<identifyNPSColumns(objectData)>> /\ pc' = "identified"
  /\ UNCHANGED <<csvText, written, quotedAt, separator, csvData, inputData, objectData,
                 npsScoreColumns, npsData, nota, categoria, npsScore, classificacao, cor,
                 cell, parsed, error, isLoading, showDashboard, url, dataInfo>>

\* The variables the form never writes.
untouched == <<csvText, written, quotedAt, separator, inputData, npsScoreColumns,
               nota, categoria, npsScore, classificacao, cor, cell, parsed, identification>>

\* onChange of the address field, which is there while the dashboard is not,
\* also while a sheet is loading.
SetUrl ==
  /\ ~showDashboard
  /\ \E address \in Urls : url' = address
  /\ pc' = IF pc = "fetching" THEN "fetching" ELSE "idle"
  /\ UNCHANGED <<error, isLoading, showDashboard, npsData, dataInfo, csvData, objectData>>
  /\ UNCHANGED untouched

\* handleSubmit up to its await (lines 287-313).
HandleSubmit ==
  /\ pc \in {"idle", "settled"}
  /\ ~showDashboard
  /\ ~isLoading
  /\ IF Trim(url) = ""
     THEN error' = "Por favor, insira a URL da planilha"
          /\ isLoading' = isLoading /\ pc' = "settled"
     ELSE IF ~validateUrl(url)
     THEN error' = "Por favor, insira uma URL válida do Google Sheets"
          /\ isLoading' = isLoading /\ pc' = "settled"
     ELSE error' = "" /\ isLoading' = TRUE /\ pc' = "fetching"
  /\ UNCHANGED <<url, showDashboard, npsData, dataInfo, csvData, objectData>>
  /\ UNCHANGED untouched

\* A variant of the catch block that leaves isLoading as it is.
CaughtStillLoading(message) ==
  /\ isLoading' = isLoading
  /\ error' = message
  /\ UNCHANGED <<showDashboard, npsData, dataInfo>>

\* A variant of the catch block that forgets the summary stored before.
CaughtForgetting(message) ==
  /\ isLoading' = FALSE
  /\ error' = message
  /\ npsData' = <<>>
  /\ UNCHANGED <<showDashboard, dataInfo>>

\* The end of handleSubmit in its catch block (lines 366-375).
Caught(message) ==
  /\ isLoading' = FALSE
  /\ error' = message
  /\ UNCHANGED <<showDashboard, npsData, dataInfo>>

\* fetchSheetData rejects, and handleSubmit catches (lines 586-589, 366-375).
FetchFailed ==
  /\ pc = "fetching"
  /\ Caught("Não foi possível carregar os dados da planilha. Verifique se ela está publicada como CSV e acessível publicamente.")
  /\ pc' = "settled"
  /\ UNCHANGED <<url, csvData, objectData>>
  /\ UNCHANGED untouched

\* fetchSheetData resolves with the rows of the text, and handleSubmit runs to
\* its end (lines 313-375).  getSheetInfo, called on the way, only reads.
FetchLoaded ==
  /\ pc = "fetching"
  /\ csvData' = FetchedRows(csvText)
  /\ IF Len(csvData') = 0
     THEN /\ Caught("A planilha está vazia ou não foi possível acessá-la. Verifique se ela está publicada corretamente.")
          /\ objectData' = objectData
     ELSE IF Len(csvToObjects(csvData')) = 0
     THEN /\ Caught("Nenhum dado válido encontrado na planilha após processamento.")
          /\ objectData' = objectData
     ELSE /\ objectData' = cleanSheetData(csvToObjects(csvData'))
          /\ IF calculateNPSThrows(objectData', <<>>)
             THEN Caught("row.hasOwnProperty is not a function")
             ELSE /\ npsData' = <<calculateNPS(objectData', <<>>)>>
                  /\ dataInfo' = <<[totalRows |-> Len(objectData'),
                                    processedRows |-> npsData'[1].totalRespostas]>>
                  /\ isLoading' = FALSE
                  /\ showDashboard' = TRUE
                  /\ error' = error
  /\ pc' = "settled"
  /\ UNCHANGED url
  /\ UNCHANGED untouched

\* The button of the dashboard that leads back to the form.
Back ==
  /\ pc = "settled"
  /\ showDashboard
  /\ showDashboard' = FALSE
  /\ pc' = "idle"
  /\ UNCHANGED <<url, error, isLoading, npsData, dataInfo, csvData, objectData>>
  /\ UNCHANGED untouched

GetNPSCategory ==
  /\ pc = "score"
  /\ categoria = ""
  /\ categoria' = getNPSCategory(nota)
  /\ UNCHANGED <<pc, csvText, written, quotedAt, separator, csvData, inputData, objectData,
                 npsScoreColumns, npsData, nota, npsScore, classificacao, cor>>
  /\ UNCHANGED rest

GetNPSClassification ==
  /\ pc = "score"
  /\ classificacao = ""
  /\ classificacao' = getNPSClassification(npsScore)
  /\ UNCHANGED <<pc, csvText, written, quotedAt, separator, csvData, inputData, objectData,
                 npsScoreColumns, npsData, nota, categoria, npsScore, cor>>
  /\ UNCHANGED rest

GetNPSColor ==
  /\ pc = "score"
  /\ cor = ""
  /\ cor' = getNPSColor(npsScore)
  /\ UNCHANGED <<pc, csvText, written, quotedAt, separator, csvData, inputData, objectData,
                 npsScoreColumns, npsData, nota, categoria, npsScore, classificacao>>
  /\ UNCHANGED rest

\* The exported functions of the library, each called on what the one before
\* it returned, as handleSubmit chains them; a caller may also ask for the
\* separator alone and clean records again.
NextCSV == DetectSeparator \/ ParseCSV \/ CsvToObjects \/ CleanSheetData
NextClean == CleanSheetData
NextTable == CsvToObjects \/ CleanSheetData
NextCalc == CalculateNPS
NextApp == SetUrl \/ HandleSubmit \/ FetchFailed \/ FetchLoaded \/ Back
NextIdentify == IdentifyNPSColumns
NextParse == ParseNPSValue
NextScore == GetNPSCategory \/ GetNPSClassification \/ GetNPSColor

SpecCSV == InitCSV /\ [][NextCSV]_vars
SpecClean == InitClean /\ [][NextClean]_vars
SpecTable == InitTable /\ [][NextTable]_vars
SpecCalc == InitCalc /\ [][NextCalc]_vars
SpecScore == InitScore /\ [][NextScore]_vars
SpecParse == InitParse /\ [][NextParse]_vars
SpecIdentify == InitIdentify /\ [][NextIdentify]_vars
SpecApp == InitApp /\ [][NextApp]_vars

\* The retrieval of the sheet settles: the promise of fetchSheetData is
\* resolved or rejected, and the rest of handleSubmit runs.
SpecAppSettling == InitApp /\ [][NextApp]_vars /\ WF_vars(FetchFailed \/ FetchLoaded)

Init == InitCSV \/ InitClean \/ InitTable \/ InitCalc \/ InitScore \/ InitParse
Next == NextCSV \/ NextCalc \/ NextIdentify \/ NextScore \/ NextParse
Spec == Init /\ [][Next]_vars

(***************************************************************************)
(* Properties                                                              *)
(***************************************************************************)

\* The summary calculateNPS returned, in a state that has one.
summary == npsData[1]

\* x + y of two doubles
Add(x, y) == ToDouble(Sum(x, y))

\* The sum of the three percentages, as JavaScript adds them.
PercentageSum ==
  Add(Add(summary.percentualDetratores, summary.percentualNeutros),
      summary.percentualPromotores)

\* |x - n| <= 2^(-k)
Within(x, n, k) ==
  LET d == Sum(x, Negate(FromNat(n)))
  IN  \/ d = Zero
      \/ Len(d.bits) + d.exp <= 0 - k
      \/ (d.bits = <<1>> /\ d.exp = 0 - k)

\* C1, as claimed: in every summary, when totalRespostas > 0 the three counts
\* add up to totalRespostas and the three percentages to 100; when
\* totalRespostas = 0 the three percentages are 0.
C1_PercentagesAddUp ==
  Len(npsData) = 1 =>
    /\ summary.totalRespostas > 0 =>
         /\ summary.detratores + summary.neutros + summary.promotores = summary.totalRespostas
         /\ PercentageSum = FromNat(100)
    /\ summary.totalRespostas = 0 =>
         /\ summary.percentualDetratores = Zero
         /\ summary.percentualNeutros = Zero
         /\ summary.percentualPromotores = Zero

\* C1, amended: in every summary, when totalRespostas > 0 the three counts
\* add up to totalRespostas and the sum of the three percentages is within
\* 2^-45 of 100; when totalRespostas = 0 the three percentages are 0.
C1_PercentagesNearlyAddUp ==
  Len(npsData) = 1 =>
    /\ summary.totalRespostas > 0 =>
         /\ summary.detratores + summary.neutros + summary.promotores = summary.totalRespostas
         /\ Within(PercentageSum, 100, 45)
    /\ summary.totalRespostas = 0 =>
         /\ summary.percentualDetratores = Zero
         /\ summary.percentualNeutros = Zero
         /\ summary.percentualPromotores = Zero

\* A summary of three answers, one of each category, next to an invalid
\* cell: three times 33.33333333333333 is 99.99999999999999.
C1_Witness ==
  /\ Len(npsData) = 1
  /\ summary.detratores = 1
  /\ summary.neutros = 1
  /\ summary.promotores = 1
  /\ summary.respostasInvalidas > 0
  /\ PercentageSum # FromNat(100)

FromInt(n) == IF n < 0 THEN Negate(FromNat(0 - n)) ELSE FromNat(n)

\* x - n of a double and an integer, exactly
Above(x, n) == Sum(x, Negate(FromInt(n)))

\* n <= x + 1/2 < n + 1
IsRoundOf(n, x) ==
  /\ ~Above(Sum(x, Half), n).neg
  /\ Above(Sum(x, Half), n + 1).neg

\* What C2 says of the cells 9, 9, 3, 7 of an explicit column.
C2_Example ==
  (inputData = ExampleScores /\ npsScoreColumns = <<"score">>) =>
    /\ summary.promotores = 2
    /\ summary.detratores = 1
    /\ summary.neutros = 1
    /\ summary.totalRespostas = 4
    /\ summary.percentualPromotores = FromNat(50)
    /\ summary.percentualDetratores = FromNat(25)
    /\ summary.score = 25

\* C2, as claimed: the score is the round of percentualPromotores -
\* percentualDetratores, that is the integer nearest to 100 * (promotores -
\* detratores) / totalRespostas, a half going up, and 0 when there is no
\* answer; it lies in -100..100; the cells 9, 9, 3, 7 give the score 25.
C2_ScoreIsRoundedQuotient ==
  Len(npsData) = 1 =>
    /\ summary.score \in (0 - 100)..100
    /\ IsRoundOf(summary.score,
                 Subtract(summary.percentualPromotores, summary.percentualDetratores))
    /\ summary.totalRespostas = 0 => summary.score = 0
    /\ summary.totalRespostas > 0 =>
         /\ 2 * summary.totalRespostas * summary.score
              <= 200 * (summary.promotores - summary.detratores) + summary.totalRespostas
         /\ 200 * (summary.promotores - summary.detratores) + summary.totalRespostas
              < 2 * summary.totalRespostas * (summary.score + 1)
    /\ C2_Example

\* C2, amended: the score is the round of the double percentualPromotores -
\* percentualDetratores, and 0 when there is no answer; it lies in -100..100
\* and is an integer nearest to 100 * (promotores - detratores) /
\* totalRespostas, either of the two when that quotient is half-way between
\* them; the cells 9, 9, 3, 7 give the score 25.
C2_ScoreIsRoundedDifference ==
  Len(npsData) = 1 =>
    /\ summary.score \in (0 - 100)..100
    /\ IsRoundOf(summary.score,
                 Subtract(summary.percentualPromotores, summary.percentualDetratores))
    /\ summary.totalRespostas = 0 => summary.score = 0
    /\ summary.totalRespostas > 0 =>
         /\ 2 * summary.totalRespostas * summary.score
              <= 200 * (summary.promotores - summary.detratores) + summary.totalRespostas
         /\ 200 * (summary.promotores - summary.detratores) - summary.totalRespostas
              <= 2 * summary.totalRespostas * summary.score
    /\ C2_Example

\* Twenty-four answers, two promoters and five detractors: the difference of
\* the percentages is -12.500000000000004, and the score -13.
C2_Witness ==
  /\ Len(npsData) = 1
  /\ summary.totalRespostas = 24
  /\ summary.promotores = 2
  /\ summary.detratores = 5
  /\ summary.score = 0 - 13

\* C3: in every summary the keys of respostasPorNota are exactly 0..10.
C3_HistogramCoversAllGrades ==
  Len(npsData) = 1 => DOMAIN summary.respostasPorNota = 0..10

\* The summary of no record at all: its histogram has no key.
C3_Witness ==
  /\ Len(npsData) = 1
  /\ objectData = <<>>
  /\ DOMAIN summary.respostasPorNota = {}

\* The cells of the selected columns that are not blank and fail parsing.
InvalidCells ==
  {ij \in (1..Len(objectData)) \X (1..Len(summary.colunasIdentificadas)) :
     LET row == objectData[ij[1]]
         column == summary.colunasIdentificadas[ij[2]]
     IN  /\ hasOwnProperty(row, column)
         /\ Trim(Get(row, column)) # ""
         /\ ~parseNPSValue(Get(row, column)).valid}

\* C4: in every summary respostasInvalidas is the number of cells of the
\* selected columns that are not blank and fail parsing, one per cell.
C4_InvalidCountsCells ==
  Len(npsData) = 1 => summary.respostasInvalidas = Cardinality(InvalidCells)

\* Two records whose only score cell is "n/a", the column given: two invalid
\* cells, and a summary that reports one.
C4_Witness ==
  /\ Len(npsData) = 1
  /\ npsScoreColumns = <<"nota">>
  /\ Len(objectData) = 2
  /\ \A i \in 1..2 : Get(objectData[i], "nota") = "n/a"
  /\ Cardinality(InvalidCells) = 2
  /\ summary.totalRespostas = 0
  /\ summary.respostasInvalidas = 1

\* The integer Math.round gives for the grade t / 10.
RoundedTenths(t) == CHOOSE r \in (0 - 100)..100 : 10 * r <= t + 5 /\ t + 5 < 10 * (r + 1)

\* C5: getNPSCategory rounds its argument and returns detrator iff the rounded
\* value is in 0..6, promotor iff it is in 9..10, and neutro iff it is in 7..8
\* or outside 0..10; what is not a number gives neutro.
C5_CategoriesPartition ==
  categoria # "" =>
    IF nota.kind = "num"
    THEN /\ categoria \in {DETRATOR, NEUTRO, PROMOTOR}
         /\ categoria = DETRATOR <=> RoundedTenths(nota.m) \in 0..6
         /\ categoria = NEUTRO <=> (RoundedTenths(nota.m) \in 7..8
                                    \/ RoundedTenths(nota.m) \notin 0..10)
         /\ categoria = PROMOTOR <=> RoundedTenths(nota.m) \in 9..10
    ELSE categoria = NEUTRO

\* The grade 6.5, which rounds to 7, is a neutro.
C5_Witness == nota = Num(65, -1) /\ categoria = NEUTRO

\* The band of the table a final score falls in.
Band(s) ==
  IF s < 0 THEN 1 ELSE IF s <= 30 THEN 2 ELSE IF s <= 50 THEN 3 ELSE IF s <= 75 THEN 4 ELSE 5

BandNames == <<"Crítico", "Ruim", "Bom", "Muito Bom", "Excelente">>
BandColors == <<"#FF4136", "#FF851B", "#FFDC00", "#2ECC40", "#0074D9">>

\* C6: for every final score in -100..100 the classification and the colour
\* are those of the score's band: below 0, 0..30, 31..50, 51..75, above 75.
C6_ClassificationAndColorAgree ==
  /\ classificacao # "" => classificacao = BandNames[Band(npsScore)]
  /\ cor # "" => cor = BandColors[Band(npsScore)]

\* The score 30 is in the band of 0..30.
C6_Witness == npsScore = 30 /\ classificacao = "Ruim" /\ cor = "#FF851B"

\* The number of places of the line that hold the character.
Occurrences(line, c) == Cardinality({i \in 1..Len(line) : CharAt(line, i) = c})

\* The first line of the text that is not blank, "" when there is none.
FirstLine(text) ==
  LET lines == SplitLines(text)
      nonBlank == {i \in 1..Len(lines) : Trim(lines[i]) # ""}
  IN  IF nonBlank = {} THEN "" ELSE lines[CHOOSE i \in nonBlank : \A j \in nonBlank : i <= j]

\* The candidates with the highest count in the line.
Highest(line) ==
  {i \in 1..3 : \A j \in 1..3 : Occurrences(line, Candidates[j]) <= Occurrences(line, Candidates[i])}

\* C7, as claimed: detectSeparator returns the candidate whose count in the
\* first non-blank line is strictly higher than both others, and "," when the
\* highest count is shared or the text is blank.
C7_TieGivesComma ==
  pc = "detected" =>
    LET best == Highest(FirstLine(csvText))
    IN  separator = IF Cardinality(best) = 1 THEN Candidates[CHOOSE i \in best : TRUE] ELSE ","

\* C7, amended: detectSeparator returns the candidate with the highest count
\* in the first non-blank line, the earliest of ",", ";", tab when several
\* share it; so "," when the text is blank or no candidate occurs, and ";"
\* for "x;y;z\n1;2;3".
C7_EarliestHighest ==
  pc = "detected" =>
    LET best == Highest(FirstLine(csvText))
    IN  /\ separator = Candidates[CHOOSE i \in best : \A j \in best : i <= j]
        /\ csvText = "x;y;z\n1;2;3" => separator = ";"

\* A first line in which ";" and tab share the highest count, above ",".
C7_Witness ==
  /\ pc = "detected"
  /\ Occurrences(FirstLine(csvText), ";") = Occurrences(FirstLine(csvText), "\t")
  /\ Occurrences(FirstLine(csvText), ",") < Occurrences(FirstLine(csvText), ";")
  /\ separator = ";"

\* C8: a line written from fields, one of them quoted, tokenizes to one row
\* holding each field's content, trimmed, at its place.
C8_QuotedFieldRoundTrip ==
  (pc = "parsed" /\ quotedAt > 0) =>
    csvData = << [i \in 1..Len(written) |-> Trim(written[i])] >>

\* The content "a" with its two quotes, written as a quoted field before a
\* plain one: the row read back holds a without them.
C8_Witness ==
  /\ pc = "parsed"
  /\ quotedAt = 1
  /\ written = <<"\"a\"", "a">>
  /\ csvText = "\"\"\"a\"\"\",a"
  /\ csvData = << <<"a", "a">> >>

\* The data rows of the table whose cells are all empty.
EmptyRows ==
  {r \in 1..(Len(csvData) - 1) : \A i \in 1..Len(csvData[r + 1]) : csvData[r + 1][i] = ""}

\* C9: after parseCSV, csvToObjects and cleanSheetData, no record comes from
\* a data row whose cells are all empty.
C9_EmptyRowsDropped ==
  pc = "cleaned" =>
    \A r \in EmptyRows :
      \A i \in 1..Len(objectData) :
        ~(hasOwnProperty(objectData[i], "_rowId")
          /\ Get(objectData[i], "_rowId") = "row_" \o NatToStr(r))

\* The text of the example, cleaned: the record of the empty second data row
\* is still there.
C9_Witness ==
  /\ pc = "cleaned"
  /\ csvText = "a,b\n1,2\n,,\n3,4"
  /\ Len(objectData) = 3
  /\ objectData[2] = << <<"a", "">>, <<"b", "">>, <<"_rowId", "row_2">> >>

\* A value that neither starts nor ends with white space.
IsTrimmed(value) ==
  \/ value = ""
  \/ /\ CharAt(value, 1) \notin WhitespaceChars
     /\ CharAt(value, Len(value)) \notin WhitespaceChars

AllTrimmed(data) ==
  \A i \in 1..Len(data) : \A j \in 1..Len(data[i]) : IsTrimmed(data[i][j][2])

\* C10: cleaning cleaned records returns them unchanged, and every value
\* cleanSheetData returns is trimmed.
C10_CleanIsIdempotent ==
  [][/\ pc' \in {"cleaned", "recleaned"} => AllTrimmed(objectData')
     /\ pc = "cleaned" => objectData' = objectData]_vars

\* A record whose own key "__proto__" holds its only content, cleaned twice:
\* the first cleaning returns it without that key, the second drops it.
C10_Witness ==
  /\ pc = "recleaned"
  /\ inputData = << << <<"__proto__", "a">>, <<"a", "">> >> >>
  /\ cleanSheetData(inputData) = << << <<"a", "">> >> >>
  /\ objectData = <<>>

\* A cell of white space only, or of nothing.
IsBlank(text) == \A i \in 1..Len(text) : CharAt(text, i) \in WhitespaceChars

\* A table csvToObjects has no records for.
NoSchema(table) ==
  \/ Len(table) < 2
  \/ Len(table[1]) = 0
  \/ \A i \in 1..Len(table[1]) : IsBlank(table[1][i])

\* C11: csvToObjects returns no record exactly when the table has fewer than
\* two rows or its header row has no cell or only blank cells; otherwise it
\* returns one record for each data row, in the order of the rows.
C11_EmptyOnlyWithoutSchema ==
  pc = "objects" =>
    /\ objectData = <<>> <=> NoSchema(csvData)
    /\ ~NoSchema(csvData) =>
         /\ Len(objectData) = Len(csvData) - 1
         /\ \A r \in 1..Len(objectData) :
              Get(objectData[r], "_rowId") = "row_" \o NatToStr(r)

\* A table of a blank header of two cells and a data row with a cell: no
\* record.
C11_Witness ==
  /\ pc = "objects"
  /\ Len(csvData) = 2
  /\ Len(csvData[1]) = 2
  /\ csvData[2] = <<"1", "1", "1">>
  /\ objectData = <<>>

\* The name the record gives the header cell at position i (from 1).
NormalName(header, i) ==
  IF IsBlank(header) THEN "coluna_" \o NatToStr(i) ELSE Trim(header)

\* The cell of a data row under header position i, "" when the row is short.
CellAt(row, i) == IF i <= Len(row) THEN row[i] ELSE ""

\* C12: for every data row and every header position, the record holds the
\* row's cell of that position (or "" when the row is shorter) under the
\* normalized name of the header, and holds nothing for cells beyond the
\* header; also when two headers normalize to one name, or a header is named
\* like a placeholder or like the row identifier.
C12_EveryPositionKept ==
  (pc = "objects" /\ ~NoSchema(csvData)) =>
    \A r \in 1..Len(objectData) :
      /\ \A i \in 1..Len(csvData[1]) :
           /\ hasOwnProperty(objectData[r], NormalName(csvData[1][i], i))
           /\ Get(objectData[r], NormalName(csvData[1][i], i)) = CellAt(csvData[r + 1], i)
      /\ \A j \in 1..Len(objectData[r]) :
           \/ Keys(objectData[r])[j] = "_rowId"
           \/ \E i \in 1..Len(csvData[1]) :
                Keys(objectData[r])[j] = NormalName(csvData[1][i], i)

\* Two header cells "a", and a row whose first cell is "1" and second "":
\* the record holds "" under "a".
C12_Witness ==
  /\ pc = "objects"
  /\ csvData = << <<"a", "a">>, <<"1", "">> >>
  /\ objectData = << << <<"a", "">>, <<"_rowId", "row_1">> >> >>

\* The set of the keys of a record.
KeySet(obj) == {obj[j][1] : j \in 1..Len(obj)}

\* The normalized names of a header row.
NormalNames(headers) == {NormalName(headers[i], i) : i \in 1..Len(headers)}

\* C13: the records of one table, as built and as kept by cleanSheetData, all
\* have the normalized header names plus "_rowId" as their keys; the record
\* of the n-th data row carries the identifier "row_<n>", and no two records
\* carry the same identifier.
C13_UniformKeys ==
  (pc \in {"objects", "cleaned", "recleaned"} /\ ~NoSchema(csvData)) =>
    /\ \A r \in 1..Len(objectData) :
         KeySet(objectData[r]) = NormalNames(csvData[1]) \cup {"_rowId"}
    /\ \A r \in 1..Len(objectData) :
         Get(objectData[r], "_rowId") = "row_" \o NatToStr(r)
    /\ \A r, q \in 1..Len(objectData) :
         r # q => Get(objectData[r], "_rowId") # Get(objectData[q], "_rowId")

\* A header "__proto__" and a data row with a cell: the cleaned record has
\* the row identifier as its only key.
C13_Witness ==
  /\ pc = "cleaned"
  /\ csvData = << <<"__proto__">>, <<"1">> >>
  /\ objectData = << << <<"_rowId", "row_1">> >> >>

\* The result of parseNPSValue for the input of the state.
result == parsed[1]

\* 0 <= n <= 10, for a decimal n
InZeroToTen(n) ==
  /\ n.kind = "num"
  /\ n.m >= 0
  /\ IF n.e >= 0 THEN n.m * Pow10(n.e) <= 10 ELSE n.m <= 10 * Pow10(-n.e)

\* C14: parseNPSValue reports a value as valid only when it lies in 0..10,
\* whichever stage produced it; an absent, empty or blank input, and a number
\* that is below 0, above 10 or NaN, is invalid; an invalid result carries no
\* value.
C14_ValidOnlyInRange ==
  pc = "value" =>
    /\ result.valid => InZeroToTen(result.value)
    /\ ~result.valid => result.value = Null
    /\ cell.type \in {"null", "undefined"} => ~result.valid
    /\ (cell.type = "string" /\ IsBlank(cell.text)) => ~result.valid
    /\ (cell.type = "number" /\ ~InZeroToTen(cell.num)) => ~result.valid
    /\ (cell.type = "number" /\ InZeroToTen(cell.num)) =>
         (result.valid /\ result.value = cell.num)

\* A text whose keyword gives a value, and a text whose number is above 10.
C14_Witness ==
  /\ pc = "value"
  /\ \/ cell.text = "OTIMO" /\ result.valid /\ result.value = Num(9, 0)
     \/ cell.text = "11 bom" /\ ~result.valid /\ result.value = Null

\* The text parseNPSValue works on, for a string input.
strValue == Trim(cell.text)

\* The text starts with a decimal digit.
StartsWithDigit(text) == Len(text) > 0 /\ IsDigit(CharAt(text, 1))

\* The i-th keyword of the table occurs in the text, whatever the case.
Occurs(i, text) == Includes(ToLowerCase(text), wordToValue[i][1])

\* What the range check makes of a number.
Checked(n) ==
  IF InZeroToTen(n) THEN [valid |-> TRUE, value |-> n] ELSE [valid |-> FALSE, value |-> Null]

\* C15: parseNPSValue tries the direct decimal parse first and the leading
\* digits next, and consults the keyword table only when both have failed;
\* the score a keyword gives is that of the first keyword, in the order of
\* the table, that occurs in the text as a case-insensitive substring.
C15_StagesInOrder ==
  (pc = "value" /\ cell.type = "string" /\ cell.text # "") =>
    IF ~isNaN(parseFloat(strValue)) THEN result = Checked(parseFloat(strValue))
    ELSE IF StartsWithDigit(strValue) THEN result = Checked(parseInt(DigitRun(strValue)))
    ELSE /\ \A i \in 1..Len(wordToValue) :
              (Occurs(i, strValue) /\ \A j \in 1..(i - 1) : ~Occurs(j, strValue)) =>
                result = [valid |-> TRUE, value |-> Num(wordToValue[i][2], 0)]
         /\ (\A i \in 1..Len(wordToValue) : ~Occurs(i, strValue)) => ~result.valid

\* "muito bom" scores 8, the value of "bom", which the table lists before
\* "muito bom".
C15_Witness ==
  /\ pc = "value"
  /\ cell.text = "muito bom"
  /\ result = [valid |-> TRUE, value |-> Num(8, 0)]

\* The columns identifyNPSColumns returned, and those it analysed.
identified == identification[1].columns
analyzed == identification[1].analyzedColumns

\* The records whose cell of the column parses to a valid score.
ValidRows(data, column) ==
  {r \in 1..Len(data) :
     hasOwnProperty(data[r], column) /\ parseNPSValue(Get(data[r], column)).valid}

\* A valid score of the column lies in one of the bands 0..3, 4..7, 8..10.
InABand(data, column) ==
  \E r \in ValidRows(data, column) :
    LET v == parseNPSValue(Get(data[r], column)).value
    IN  \E band \in {<<0, 3>>, <<4, 7>>, <<8, 10>>} :
          /\ v.m * Pow10(v.e) >= band[1] * Pow10(-v.e)
          /\ v.m * Pow10(v.e) <= band[2] * Pow10(-v.e)

\* The share of valid scores among all the records reaches the percentage.
ShareAtLeast(data, column, percent) ==
  100 * Cardinality(ValidRows(data, column)) >= percent * Len(data)

Suggestive(column) ==
  \E i \in 1..Len(possibleColumnNames) : Includes(ToLowerCase(column), possibleColumnNames[i])

ShouldIdentify(data, column) ==
  /\ column # "_rowId"
  /\ InABand(data, column)
  /\ \/ Suggestive(column) /\ ShareAtLeast(data, column, 10)
     \/ ~Suggestive(column) /\ ShareAtLeast(data, column, 50)

\* The place of a key among the keys of a record.
PlaceOf(keys, k) == CHOOSE i \in 1..Len(keys) : keys[i] = k

\* C16: identifyNPSColumns returns, in the order of the first record's keys
\* and without duplicates, exactly the keys other than "_rowId" whose valid
\* scores lie in an expected band and make up at least 10% of all the records
\* when the name is suggestive, at least 50% when it is not; "_rowId" is
\* neither returned nor analysed; without records, or without a qualifying
\* column, it returns no column.
C16_IdentifiedColumns ==
  pc = "identified" =>
    IF Len(objectData) = 0 THEN identified = <<>> /\ analyzed = <<>>
    ELSE LET keys == Keys(objectData[1])
         IN  /\ \A i \in 1..Len(keys) :
                  SeqIncludes(identified, keys[i]) <=> ShouldIdentify(objectData, keys[i])
             /\ \A i \in 1..Len(identified) : SeqIncludes(keys, identified[i])
             /\ \A i, j \in 1..Len(identified) :
                  i < j => PlaceOf(keys, identified[i]) < PlaceOf(keys, identified[j])
             /\ ~SeqIncludes(identified, "_rowId")
             /\ ~SeqIncludes(analyzed, "_rowId")

\* Four records, one valid score in each column: the column with the
\* suggestive name is identified at 25%, the other is not.
C16_Witness ==
  /\ pc = "identified"
  /\ Len(objectData) = 4
  /\ identified = <<"nota">>
  /\ analyzed = <<"nota", "x">>

\* The cells of the columns, one for each record and each place of the list
\* of columns, that parse to a valid score.
ValidCells(data, columns) ==
  {rc \in (1..Len(data)) \X (1..Len(columns)) :
     /\ hasOwnProperty(data[rc[1]], columns[rc[2]])
     /\ parseNPSValue(Get(data[rc[1]], columns[rc[2]])).valid}

\* Those of a category.
CellsOf(data, columns, category) ==
  {rc \in ValidCells(data, columns) :
     getNPSCategory(parseNPSValue(Get(data[rc[1]], columns[rc[2]])).value) = category}

\* The counts of the summary are those of the cells of the columns.
CountsFrom(columns) ==
  /\ summary.totalRespostas = Cardinality(ValidCells(objectData, columns))
  /\ summary.detratores = Cardinality(CellsOf(objectData, columns, DETRATOR))
  /\ summary.neutros = Cardinality(CellsOf(objectData, columns, NEUTRO))
  /\ summary.promotores = Cardinality(CellsOf(objectData, columns, PROMOTOR))

\* C17, as the specification states it: given a non-empty list of columns,
\* calculateNPS reports that list and counts the cells of those columns only,
\* whatever the identifier would select; given none, it uses the columns of
\* identifyNPSColumns.
C17_GivenColumnsUsed ==
  pc = "calculated" =>
    IF Len(npsScoreColumns) > 0
    THEN summary.colunasIdentificadas = npsScoreColumns /\ CountsFrom(npsScoreColumns)
    ELSE /\ summary.colunasIdentificadas = identifyNPSColumns(objectData).columns
         /\ CountsFrom(identifyNPSColumns(objectData).columns)

\* C17, amended: the same for a record set that is not empty; for the empty
\* record set the summary has no column and no count, whatever the caller
\* gives.
C17_GivenColumnsUsedOnRecords ==
  pc = "calculated" =>
    IF Len(objectData) = 0
    THEN summary.colunasIdentificadas = <<>> /\ CountsFrom(<<>>)
    ELSE IF Len(npsScoreColumns) > 0
    THEN summary.colunasIdentificadas = npsScoreColumns /\ CountsFrom(npsScoreColumns)
    ELSE /\ summary.colunasIdentificadas = identifyNPSColumns(objectData).columns
         /\ CountsFrom(identifyNPSColumns(objectData).columns)

\* The caller gives "x" where the identifier would select "nota": the
\* summary counts the one valid cell of "x".
C17_Witness ==
  /\ pc = "calculated"
  /\ npsScoreColumns = <<"x">>
  /\ identifyNPSColumns(objectData).columns = <<"nota">>
  /\ summary.colunasIdentificadas = <<"x">>
  /\ summary.totalRespostas = 1
  /\ Len(objectData) = 2

\* The columns calculateNPS scans: those given, else those identified.
SelectedColumns ==
  IF Len(npsScoreColumns) > 0 THEN npsScoreColumns
  ELSE identifyNPSColumns(objectData).columns

\* A summary of no answer.
AllZero(s) ==
  /\ s.totalRespostas = 0
  /\ s.detratores = 0 /\ s.neutros = 0 /\ s.promotores = 0
  /\ s.percentualDetratores = Zero
  /\ s.percentualNeutros = Zero
  /\ s.percentualPromotores = Zero
  /\ s.score = 0

\* C18: when no cell of the selected columns is a valid score, calculateNPS
\* does not fail: it returns a summary of zeros whose column list is empty if
\* the identifier found no column, and the identified or given columns
\* otherwise.
C18_ZeroSummary ==
  (pc \in {"calculated", "threw"} /\ ValidCells(objectData, SelectedColumns) = {}) =>
    /\ pc = "calculated"
    /\ Len(npsData) = 1
    /\ AllZero(summary)
    /\ summary.colunasIdentificadas = SelectedColumns

\* A record with a key "hasOwnProperty" and no valid score in the given
\* column: calculateNPS raises and returns no summary.
C18_Witness ==
  /\ pc = "threw"
  /\ objectData = ExampleShadowUnscored
  /\ npsScoreColumns = <<"nota">>
  /\ ValidCells(objectData, npsScoreColumns) = {}
  /\ npsData = <<>>

\* C19: no operation of the core ends in an exception, whatever text, table
\* or records with string cells and whatever column names it is given.
C19_NoException == pc # "threw"

\* The records of a sheet with a column named "hasOwnProperty": calculateNPS
\* raises and returns no summary.
C19_Witness ==
  /\ pc = "threw"
  /\ objectData = ExampleShadow
  /\ npsScoreColumns = <<>>
  /\ npsData = <<>>

\* C20: when the summary computed from the loaded sheet has no answer, the
\* submit ends with an error message and without the dashboard; the dashboard
\* is shown for a summary with answers only.
C20_NoAnswerIsAnError ==
  /\ (pc = "settled" /\ npsData # <<>> /\ summary.totalRespostas = 0) =>
       (error # "" /\ ~showDashboard)
  /\ showDashboard => (npsData # <<>> /\ summary.totalRespostas > 0)

\* The sheet "nota" / "n/a": the submit ends with the dashboard of a summary
\* without answers, and no message.
C20_Witness ==
  /\ pc = "settled"
  /\ csvText = "nota\nn/a"
  /\ npsData # <<>>
  /\ summary.totalRespostas = 0
  /\ showDashboard
  /\ error = ""
  /\ ~isLoading

\* C21: a quote followed by a quote gives a literal quote only inside a quoted
\* field; outside one the first quote opens the field and gives nothing, so
\* an empty quoted field between separators is read as an empty cell.
C21_EmptyQuotedFieldIsEmpty ==
  (pc = "parsed" /\ quotedAt > 0 /\ Len(written) >= 2 /\ written[quotedAt] = "") =>
    /\ Len(csvData) = 1
    /\ Len(csvData[1]) = Len(written)
    /\ csvData[1][quotedAt] = ""

\* The line of the field a and an empty quoted field: the second cell read
\* is a quote.
C21_Witness ==
  /\ pc = "parsed"
  /\ written = <<"a", "">>
  /\ quotedAt = 2
  /\ csvText = "a,\"\""
  /\ csvData = << <<"a", "\"">> >>

\* The grade g is the rounding of the decimal v: g - 1/2 <= v < g + 1/2.
RoundsTo(v, g) ==
  /\ 2 * v.m * Pow10(v.e) >= (2 * g - 1) * Pow10(-v.e)
  /\ 2 * v.m * Pow10(v.e) < (2 * g + 1) * Pow10(-v.e)

\* The valid cells of the selected columns whose score rounds to the grade.
CellsOfGrade(cells, columns, g) ==
  {rc \in cells : RoundsTo(parseNPSValue(Get(objectData[rc[1]], columns[rc[2]])).value, g)}

\* The buckets of the histogram count the cells by their grade, and the total
\* counts them all.
BucketsCount(cells, columns) ==
  /\ \A g \in 0..10 :
       summary.respostasPorNota[g] = Cardinality(CellsOfGrade(cells, columns, g))
  /\ summary.totalRespostas = Cardinality(cells)

BucketsCountSelected(columns) == BucketsCount(ValidCells(objectData, columns), columns)

\* The sum of the buckets lo..hi of a histogram.
RECURSIVE SumOfBuckets(_, _, _)
SumOfBuckets(f, lo, hi) ==
  IF lo > hi THEN 0 ELSE f[lo] + SumOfBuckets(f, lo + 1, hi)

\* C22: in a summary with answers, every valid cell is counted once in the
\* bucket of its rounded score, once in the category of that grade and once
\* in totalRespostas: the buckets are those of 0..10 and add up to
\* totalRespostas, detratores is the sum of the buckets 0..6, neutros of 7..8
\* and promotores of 9..10.
C22_CountedOnce ==
  (pc = "calculated" /\ summary.totalRespostas > 0) =>
    /\ DOMAIN summary.respostasPorNota = 0..10
    /\ BucketsCountSelected(SelectedColumns)
    /\ SumOfBuckets(summary.respostasPorNota, 0, 10) = summary.totalRespostas
    /\ SumOfBuckets(summary.respostasPorNota, 0, 6) = summary.detratores
    /\ SumOfBuckets(summary.respostasPorNota, 7, 8) = summary.neutros
    /\ SumOfBuckets(summary.respostasPorNota, 9, 10) = summary.promotores

\* A score of 6.5 and a score of 9: one answer in bucket 7, counted as
\* neutral, and one in bucket 9.
C22_Witness ==
  /\ pc = "calculated"
  /\ Len(objectData) = 2
  /\ npsScoreColumns = <<"nota">>
  /\ Get(objectData[1], "nota") = "6.5"
  /\ Get(objectData[2], "nota") = "9"
  /\ summary.respostasPorNota[7] = 1
  /\ summary.respostasPorNota[6] = 0
  /\ summary.neutros = 1
  /\ summary.promotores = 1

\* The diagnostic list of the summary.
ignored == summary.debug.valoresIgnorados

\* The cells of the columns that are neither blank nor a valid score.
FailedCells(data, columns) ==
  {rc \in (1..Len(data)) \X (1..Len(columns)) :
     /\ hasOwnProperty(data[rc[1]], columns[rc[2]])
     /\ ~IsBlank(Get(data[rc[1]], columns[rc[2]]))
     /\ ~parseNPSValue(Get(data[rc[1]], columns[rc[2]])).valid}

\* The raw text of a cell.
RawOf(data, columns, rc) == Get(data[rc[1]], columns[rc[2]])

\* The turn of the scan that visits a cell: record by record, column by column.
TurnOf(columns, rc) == (rc[1] - 1) * Len(columns) + rc[2]

\* The first turn of the scan at which a failed cell holds the text.
FirstTurn(failed, data, columns, text) ==
  CHOOSE t \in 1..(Len(data) * Len(columns)) :
    /\ \E rc \in failed : TurnOf(columns, rc) = t /\ RawOf(data, columns, rc) = text
    /\ \A rc \in failed : RawOf(data, columns, rc) = text => TurnOf(columns, rc) >= t

\* The list holds the texts of the failed cells, each once, in the order of
\* their first turns.
ListsFailed(list, failed, data, columns) ==
  /\ \A i, j \in 1..Len(list) : i # j => list[i] # list[j]
  /\ \A i \in 1..Len(list) : ~IsBlank(list[i])
  /\ \A i \in 1..Len(list) : \E rc \in failed : RawOf(data, columns, rc) = list[i]
  /\ \A rc \in failed : SeqIncludes(list, RawOf(data, columns, rc))
  /\ \A i, j \in 1..Len(list) :
       i < j => FirstTurn(failed, data, columns, list[i]) < FirstTurn(failed, data, columns, list[j])

ListsFailedOf(columns) ==
  ListsFailed(ignored, FailedCells(objectData, columns), objectData, columns)

\* C23: debug.valoresIgnorados holds no text twice and no blank text; it holds
\* exactly the raw texts of the non-blank cells of the selected columns that
\* failed parsing, as they are, in the order the scan first met them; blank
\* cells count neither as answers nor as invalid answers.
C23_IgnoredValues ==
  pc = "calculated" =>
    /\ ListsFailedOf(SelectedColumns)
    /\ summary.totalRespostas = Cardinality(ValidCells(objectData, SelectedColumns))
    /\ summary.respostasInvalidas <= Cardinality(FailedCells(objectData, SelectedColumns))

\* Unparseable cells, two of them the same padded text, and a blank cell: the
\* list keeps the padding and names each text once, in the order of the scan.
C23_Witness ==
  /\ pc = "calculated"
  /\ objectData = ExamplePadded
  /\ npsScoreColumns = <<"x", "nota">>
  /\ ignored = <<"?", " n/a ", "n/a">>
  /\ summary.respostasInvalidas = 5
  /\ summary.totalRespostas = 2

\* The places of the line feeds of a text, and the k-th of them.
Breaks(text) == {i \in 1..Len(text) : CharAt(text, i) = "\n"}

NthBreak(text, k) ==
  CHOOSE i \in Breaks(text) : Cardinality({j \in Breaks(text) : j < i}) = k - 1

\* The k-th line of a text: what lies between two line feeds, without the
\* carriage return that precedes the line feed ending it.
LineStart(text, k) == IF k = 1 THEN 1 ELSE NthBreak(text, k - 1) + 1

LineEnd(text, k) ==
  IF k = Cardinality(Breaks(text)) + 1 THEN Len(text)
  ELSE IF NthBreak(text, k) - 1 >= LineStart(text, k)
          /\ CharAt(text, NthBreak(text, k) - 1) = "\r"
       THEN NthBreak(text, k) - 2
       ELSE NthBreak(text, k) - 1

InputLines(text) ==
  [k \in 1..(Cardinality(Breaks(text)) + 1) |->
     SubSeq(text, LineStart(text, k), LineEnd(text, k))]

NotBlank(line) == ~IsBlank(line)

\* The row of a line scanned on its own, outside any quoted field at its
\* start, with the separator of the text.
ScannedAlone(line) == ParseLine(line, detectSeparator(csvText))

\* C24: parseCSV returns one row for each input line that is not blank, in
\* the order of the lines, each the result of scanning its line alone from
\* outside a quoted field; blank lines give no row, and a text without a
\* non-blank line gives the empty table.
C24_OneRowPerLine ==
  pc = "parsed" =>
    /\ Len(csvData) = Len(SelectSeq(InputLines(csvText), NotBlank))
    /\ \A k \in 1..Len(csvData) :
         /\ csvData[k] = ScannedAlone(SelectSeq(InputLines(csvText), NotBlank)[k])
         /\ Len(csvData[k]) > 0

\* A first line that opens a quoted field and never closes it, and a second
\* line of two fields: two rows, the second of two cells.
C24_Witness ==
  /\ pc = "parsed"
  /\ csvText = "\"\na,a"
  /\ csvData = << <<"">>, <<"a", "a">> >>

\* The address is not blank and passes validateUrl.
Accepted(address) == Trim(address) # "" /\ validateUrl(address)

\* A step that is the start of handleSubmit, and one that is its end after
\* the retrieval.
SubmitStep == pc \in {"idle", "settled"} /\ pc' \in {"settled", "fetching"}

SettleStep == pc = "fetching" /\ pc' = "settled"

\* C25: isLoading becomes true only in a submit whose address is not blank
\* and passes validateUrl; a submit that validation rejects sets an error
\* message and leaves isLoading false; and once the retrieval settles, on
\* success, on an empty sheet, on a sheet without records and on failure
\* alike, isLoading is false again.
C25_LoadingSettles ==
  /\ [][(~isLoading /\ isLoading') => (SubmitStep /\ Accepted(url))]_vars
  /\ [][(SubmitStep /\ Accepted(url)) => (isLoading' /\ pc' = "fetching")]_vars
  /\ [][(SubmitStep /\ ~Accepted(url)) =>
          (error' # "" /\ ~isLoading /\ ~isLoading' /\ pc' = "settled")]_vars
  /\ [][SettleStep => ~isLoading']_vars
  /\ (isLoading ~> ~isLoading)

\* The retrieval brought an empty sheet: the submit has ended with its
\* message, and isLoading is false.
C25_Witness ==
  /\ pc = "settled"
  /\ csvData = <<>>
  /\ error = "A planilha está vazia ou não foi possível acessá-la. Verifique se ela está publicada corretamente."
  /\ ~isLoading
  /\ ~showDashboard

\* C26: every keyword of the table, given alone as the text of the cell,
\* parses to the score the table gives that keyword.
C26_KeywordScoresItself ==
  (pc = "value" /\ cell.type = "string") =>
    \A i \in 1..Len(wordToValue) :
      cell.text = wordToValue[i][1] =>
        result = [valid |-> TRUE, value |-> Num(wordToValue[i][2], 0)]

\* The keyword "muito bom", which the table scores 9, parses to 8.
C26_Witness ==
  /\ pc = "value"
  /\ cell = TextInput("muito bom")
  /\ wordToValue[14] = <<"muito bom", 9>>
  /\ result.valid
  /\ result.value = Num(8, 0)

\* C27: for every column analysed, analyzeColumnValues reports the expected
\* range exactly when the column has a valid value, also when the valid
\* values, such as 3.5 and 7.5, lie between the ranges 0..3, 4..7 and 8..10.
C27_ExpectedRangeIffValid ==
  pc = "identified" =>
    \A i \in 1..Len(analyzed) :
      analyzeColumnValues(objectData, analyzed[i]).hasExpectedRange
        <=> Cardinality(ValidRows(objectData, analyzed[i])) > 0

\* Two records whose scores are 3.5 and 7.5: two valid values, no expected
\* range, and no column identified although the name is suggestive.
C27_Witness ==
  /\ pc = "identified"
  /\ objectData = ExampleOffBand
  /\ analyzeColumnValues(objectData, "score").validCount = 2
  /\ ~analyzeColumnValues(objectData, "score").hasExpectedRange
  /\ identified = <<>>

\* The records all have the keys of the first one.
SameKeys(data) == \A r \in 1..Len(data) : KeySet(data[r]) = KeySet(data[1])

\* The sum of the numbers of valid values of the columns from the i-th on.
RECURSIVE SumOfValid(_, _, _)
SumOfValid(data, columns, i) ==
  IF i > Len(columns) THEN 0
  ELSE Cardinality(ValidRows(data, columns[i])) + SumOfValid(data, columns, i + 1)

\* C28: when calculateNPS chooses the columns itself and the records all have
\* the keys of the first, the summary has answers exactly when it names
\* columns, and then as many as the identified columns have valid values:
\* no summary names columns and has no answer.
C28_AnswersIffColumns ==
  (pc = "calculated" /\ npsScoreColumns = <<>> /\ SameKeys(objectData)) =>
    /\ summary.totalRespostas > 0 <=> Len(summary.colunasIdentificadas) > 0
    /\ summary.totalRespostas = SumOfValid(objectData, summary.colunasIdentificadas, 1)

\* Two records with two columns, both identified, one cell unparseable:
\* three answers.
C28_Witness ==
  /\ pc = "calculated"
  /\ npsScoreColumns = <<>>
  /\ Len(objectData) = 2
  /\ SameKeys(objectData)
  /\ summary.colunasIdentificadas = <<"nota", "x">>
  /\ summary.totalRespostas = 3

\* The list of the columns considered that the summary reports.
considered == summary.debug.colunasAnalisadas

\* C29: the list of the columns considered never holds "_rowId", and is the
\* same for the same records whether the caller gives columns or not.
C29_ConsideredWithoutRowId ==
  pc = "calculated" =>
    /\ ~SeqIncludes(considered, "_rowId")
    /\ considered = calculateNPS(objectData, <<>>).debug.colunasAnalisadas

\* One record and the column "nota" given: the list of the columns
\* considered ends with "_rowId", which it lacks when no column is given.
C29_Witness ==
  /\ pc = "calculated"
  /\ Len(objectData) = 1
  /\ npsScoreColumns = <<"nota">>
  /\ considered = <<"nota", "_rowId">>
  /\ calculateNPS(objectData, <<>>).debug.colunasAnalisadas = <<"nota">>

\* A step in which a submit ends with an error message.
FailedStep == (SubmitStep \/ SettleStep) /\ pc' = "settled" /\ error' # ""

\* C30: while the dashboard is shown there is a summary, nothing is loading
\* and there is no error message; a submit that fails after one that
\* succeeded leaves the dashboard hidden and the stored summary as it was.
C30_DashboardHasSummary ==
  /\ [](showDashboard => (npsData # <<>> /\ ~isLoading /\ error = ""))
  /\ [][(FailedStep /\ npsData # <<>>) => (~showDashboard' /\ npsData' = npsData)]_vars

\* After a success and the way back to the form, a submit has failed: the
\* summary is still stored and the dashboard is hidden.
C30_Witness ==
  /\ pc = "settled"
  /\ npsData # <<>>
  /\ dataInfo # <<>>
  /\ error # ""
  /\ ~showDashboard
  /\ ~isLoading

=============================================================================
